---- MODULE Spec2Model ----
(***************************************************************************)
(* Event ingestion and reconciliation pipeline of allo-event-tracker:      *)
(* Web3Service (stock-manager schema), its HTTP controller and the         *)
(* StockManagerEventRepository calls it makes.  Every await of the code is *)
(* a suspension point: one action runs the code from one await to the      *)
(* next, and flows interleave only there.                                  *)
(***************************************************************************)
EXTENDS Integers, Sequences, FiniteSets, TLC

\* ------------------------------------------------------------------ bounds
\* Number of flows started in one behaviour (logs delivered by the live
\* subscriptions, timer firings, HTTP requests) where flows race on the store.
MaxFlows == 2
\* Number of sweeps and requests in one behaviour where block ranges vary.
MaxSweeps == 1
\* Number of transport 'connect' signals emitted after observers are registered.
MaxSignals == 2
\* Calls of startHourlyBackfill in one run, and stops of an idle scheduler.
MaxArmings == 2

\* --------------------------------------------------------- program constants
batchSizeHalved == 1000 \div 2
batchSize == 1000
HourlyLookback == 10000
DefaultBlockCount == 10000
MaxBlockCount == 50000
PreviousLookback == 80000

\* ------------------------------------------------------------- JS numbers
\* A JavaScript number as far as the code uses one: an integer or NaN.
NaN == [nan |-> TRUE, val |-> 0]
Num(v) == [nan |-> FALSE, val |-> v]
\* a <= b, a > b: every comparison with NaN is false.
JsLess(a, b) == ~a.nan /\ ~b.nan /\ a.val < b.val
JsLeq(a, b) == ~a.nan /\ ~b.nan /\ a.val <= b.val
JsGt(a, b) == ~a.nan /\ ~b.nan /\ a.val > b.val
JsSub(a, b) == IF a.nan \/ b.nan THEN NaN ELSE Num(a.val - b.val)
JsAdd(a, b) == IF a.nan \/ b.nan THEN NaN ELSE Num(a.val + b.val)
\* Math.max / Math.min: NaN if either argument is NaN.
MathMax(a, b) == IF a.nan \/ b.nan THEN NaN ELSE IF a.val >= b.val THEN a ELSE b
MathMin(a, b) == IF a.nan \/ b.nan THEN NaN ELSE IF a.val <= b.val THEN a ELSE b
\* Truthiness of a number: 0 and NaN are falsy.
Truthy(a) == ~a.nan /\ a.val # 0

\* ------------------------------------------------------------ conversions
DigitChars == {"0", "1", "2", "3", "4", "5", "6", "7", "8", "9"}
DigitVal(c) == CASE c = "0" -> 0 [] c = "1" -> 1 [] c = "2" -> 2 [] c = "3" -> 3
                 [] c = "4" -> 4 [] c = "5" -> 5 [] c = "6" -> 6 [] c = "7" -> 7
                 [] c = "8" -> 8 [] c = "9" -> 9
DigitChar(d) == CASE d = 0 -> "0" [] d = 1 -> "1" [] d = 2 -> "2" [] d = 3 -> "3"
                  [] d = 4 -> "4" [] d = 5 -> "5" [] d = 6 -> "6" [] d = 7 -> "7"
                  [] d = 8 -> "8" [] d = 9 -> "9"

RECURSIVE ParseDigits(_, _, _)
ParseDigits(s, i, acc) ==
  IF i > Len(s) \/ s[i] \notin DigitChars THEN acc
  ELSE ParseDigits(s, i + 1, acc * 10 + DigitVal(s[i]))

\* parseInt of a query string given as its sequence of characters: an optional
\* sign, then the longest run of decimal digits; NaN when there is none.
parseInt(s) ==
  LET neg   == Len(s) > 0 /\ s[1] = "-"
      start == IF Len(s) > 0 /\ s[1] \in {"-", "+"} THEN 2 ELSE 1
  IN IF start > Len(s) \/ s[start] \notin DigitChars THEN NaN
     ELSE Num((IF neg THEN -1 ELSE 1) * ParseDigits(s, start, 0))

\* bigint.toString(): the decimal string of an unsigned integer.
RECURSIVE toString(_)
toString(n) == IF n < 10 THEN DigitChar(n) ELSE toString(n \div 10) \o DigitChar(n % 10)

\* String(n): the characters of the decimal string of an unsigned integer.
RECURSIVE toChars(_)
toChars(n) == IF n < 10 THEN <<DigitChar(n)>> ELSE Append(toChars(n \div 10), DigitChar(n % 10))

\* String.prototype.trim on the urls the model uses.
trim(s) == IF s = "  " THEN "" ELSE s

\* String.prototype.toLowerCase on the strings the model uses.
toLowerCase(s) == CASE s = "0xAA" -> "0xaa"
                    [] s = "0xAa" -> "0xaa"
                    [] s = "0xBB" -> "0xbb"
                    [] s = "0xDD" -> "0xdd"
                    [] s = "Deposited" -> "deposited"
                    [] s = "Redeemed" -> "redeemed"
                    [] OTHER -> s

\* ------------------------------------------------------------------ inputs
Networks == <<"net1", "net2", "net3">>
NetworkNames == {Networks[i] : i \in DOMAIN Networks}

ContractsOf(n) ==
  CASE n = "net1" -> << [address |-> "0xAA", name |-> "VaultA"],
                        [address |-> "0xBB", name |-> "VaultB"] >>
    [] n = "net2" -> << [address |-> "0xCC", name |-> "VaultC"] >>
    [] n = "net3" -> << [address |-> "0xDD", name |-> "VaultD"] >>

ChainIdOf(n) == CASE n = "net1" -> 56 [] n = "net2" -> 1 [] n = "net3" -> 137

\* The configuration list handed to connectToMultipleChains; urls gives each
\* network's wssUrl.
ConfigList(urls) ==
  [i \in DOMAIN Networks |->
     [name |-> Networks[i], wssUrl |-> urls[Networks[i]],
      chainId |-> ChainIdOf(Networks[i]), contracts |-> ContractsOf(Networks[i])]]

\* web3.utils.sha3 of the two event prototypes.
DepositedSignature == "sha3:Deposited(address,address,address,uint256,uint256,uint256)"
RedeemedSignature == "sha3:Redeemed(address,address,address,uint256,uint256,uint256)"
OtherSignature == "sha3:FeeCharged(address,address,address,uint256,uint256,uint256)"

\* An indexed address topic is the address left-padded to 32 bytes; decoding
\* strips the padding.
AddressOfTopic(t) == CASE t = "0x000..u1" -> "0xU1"
                       [] t = "0x000..u2" -> "0xU2"
                       [] t = "0x000..t1" -> "0xT1"
                       [] t = "0x000..s1" -> "0xS1"
                       [] OTHER -> "0x0"

LogDepA == [net |-> "net1", address |-> "0xaa",
            topics |-> <<DepositedSignature, "0x000..u1", "0x000..t1", "0x000..s1">>,
            data |-> <<500, 12, 3>>, blockNumber |-> 1500, transactionHash |-> "0xh1"]
\* A second Deposited log of the same transaction, emitted by the other contract.
LogDepB == [net |-> "net1", address |-> "0xbb",
            topics |-> <<DepositedSignature, "0x000..u1", "0x000..t1", "0x000..s1">>,
            data |-> <<40, 7, 0>>, blockNumber |-> 1500, transactionHash |-> "0xh1"]
LogRedA == [net |-> "net1", address |-> "0xaa",
            topics |-> <<RedeemedSignature, "0x000..u2", "0x000..t1", "0x000..s1">>,
            data |-> <<12, 500, 3>>, blockNumber |-> 2200, transactionHash |-> "0xh2"]
\* The same transaction hash on another network.
LogRedD == [net |-> "net3", address |-> "0xdd",
            topics |-> <<RedeemedSignature, "0x000..u2", "0x000..t1", "0x000..s1">>,
            data |-> <<7, 40, 1>>, blockNumber |-> 1500, transactionHash |-> "0xh1"]
\* A log of a configured contract whose event the pipeline does not track.
LogOther == [net |-> "net1", address |-> "0xaa",
             topics |-> <<OtherSignature, "0x000..u1", "0x000..t1", "0x000..s1">>,
             data |-> <<9, 9, 9>>, blockNumber |-> 1500, transactionHash |-> "0xh3"]

\* Logs of later blocks that miss a required field: a topic, the data
\* payload, the transaction hash.
LogFewTopics == [net |-> "net1", address |-> "0xaa",
                 topics |-> <<DepositedSignature, "0x000..u1", "0x000..t1">>,
                 data |-> <<500, 12, 3>>, blockNumber |-> 3000, transactionHash |-> "0xh5"]
LogNoData == [net |-> "net1", address |-> "0xaa",
              topics |-> <<RedeemedSignature, "0x000..u2", "0x000..t1", "0x000..s1">>,
              data |-> <<>>, blockNumber |-> 3000, transactionHash |-> "0xh6"]
LogNoHash == [net |-> "net1", address |-> "0xaa",
              topics |-> <<DepositedSignature, "0x000..u1", "0x000..t1", "0x000..s1">>,
              data |-> <<500, 12, 3>>, blockNumber |-> 3100, transactionHash |-> ""]
\* A well-formed Redeemed log that follows them.
LogRedLate == [net |-> "net1", address |-> "0xaa",
               topics |-> <<RedeemedSignature, "0x000..u2", "0x000..t1", "0x000..s1">>,
               data |-> <<1, 2, 0>>, blockNumber |-> 3200, transactionHash |-> "0xh7"]
\* A log without block number; it can only be delivered, not queried by range.
LogNoBlock == [net |-> "net1", address |-> "0xaa",
               topics |-> <<DepositedSignature, "0x000..u1", "0x000..t1", "0x000..s1">>,
               data |-> <<500, 12, 3>>, blockNumber |-> 0, transactionHash |-> "0xh8"]

ChainLogs == {LogDepA, LogDepB, LogRedA, LogRedD, LogOther,
              LogFewTopics, LogNoData, LogNoHash, LogRedLate}

\* A log of a contract that is not configured, and a log of contract 0xAA
\* whose address is spelt in mixed case.
LogForeign == [net |-> "net1", address |-> "0xee",
               topics |-> <<DepositedSignature, "0x000..u1", "0x000..t1", "0x000..s1">>,
               data |-> <<500, 12, 3>>, blockNumber |-> 1500, transactionHash |-> "0xh9"]
LogMixedCase == [net |-> "net1", address |-> "0xAa",
                 topics |-> <<RedeemedSignature, "0x000..u2", "0x000..t1", "0x000..s1">>,
                 data |-> <<8, 80, 1>>, blockNumber |-> 1500, transactionHash |-> "0xh10"]

\* A Deposited log whose data payload is cut short: decodeLog throws on it.
LogTruncated == [net |-> "net1", address |-> "0xaa",
                 topics |-> <<DepositedSignature, "0x000..u1", "0x000..t1", "0x000..s1">>,
                 data |-> <<500>>, blockNumber |-> 1500, transactionHash |-> "0xh4"]

\* eth_getLogs: the chain's logs of one address in [fromBlock, toBlock] whose
\* topics[0] is the given signature, in block order.
RECURSIVE SeqOfSet(_)
SeqOfSet(S) ==
  IF S = {} THEN <<>>
  ELSE LET x == CHOOSE y \in S : \A z \in S : y.blockNumber <= z.blockNumber
       IN <<x>> \o SeqOfSet(S \ {x})

getPastLogs(net, address, fromBlock, toBlock, topic) ==
  SeqOfSet({l \in ChainLogs : /\ l.net = net
                              /\ l.address = toLowerCase(address)
                              /\ l.blockNumber >= fromBlock
                              /\ l.blockNumber <= toBlock
                              /\ l.topics[1] = topic})

\* ------------------------------------------------------------------- state
VARIABLES
  config,             \* the exported blockchainConfigs list (static configuration)
  budget,             \* how many flows the environment starts in this run
  faults,             \* which external calls can fail in this run of the environment
  head,               \* each network's current block number
  blockchainConfigs,  \* Web3Service.blockchainConfigs
  web3Connections,    \* keys of Web3Service.web3Connections
  subscriptions,      \* keys of Web3Service.subscriptions, by network
  connected,          \* Web3Service.connected
  backfillInterval,   \* TRUE iff Web3Service.backfillInterval is not null
  oneShot,            \* pending one-shot timers set by startHourlyBackfill
  timers,             \* the runtime's pending setInterval timers, and how often the scheduler was called
  observers,          \* networks whose provider has its observers registered
  subscribing,        \* per network, eth_subscribe calls awaiting their answer
  openSubs,           \* per network, open log subscriptions with a data handler
  rejected,           \* networks for which an eth_subscribe call has been rejected
  boot,               \* position of connectToMultipleChains
  live,               \* one pipeline run per delivered log
  sweeps,             \* one record per backfill sweep
  requests,           \* one record per HTTP request to the controller
  store,              \* rows of table stock_manager_events, in insertion order
  nSignals,           \* transport signals emitted so far
  shutdown            \* position of onModuleDestroy, and whether stopHourlyBackfill ran

vars == <<config, budget, faults, head, blockchainConfigs, web3Connections, subscriptions,
          connected, backfillInterval, oneShot, timers, observers, subscribing, openSubs,
          rejected, boot, live, sweeps, requests, store, nSignals, shutdown>>

FaultKinds == {"getChainId", "subscribe", "getBlock", "getBlockNumber",
               "getPastLogs", "findByTxHash", "create", "unsubscribe", "disconnect"}

\* The answers an external call can give: TRUE (resolves) or FALSE (rejects).
Outcomes(kind) == IF kind \in faults THEN {TRUE, FALSE} ELSE {TRUE}

\* ---------------------------------------------------------------- decoding
DepositedInputs ==
  << [type |-> "address", name |-> "user", indexed |-> TRUE],
     [type |-> "address", name |-> "assetToken", indexed |-> TRUE],
     [type |-> "address", name |-> "stablecoin", indexed |-> TRUE],
     [type |-> "uint256", name |-> "amount", indexed |-> FALSE],
     [type |-> "uint256", name |-> "tokenAmount", indexed |-> FALSE],
     [type |-> "uint256", name |-> "fee", indexed |-> FALSE] >>

RedeemedInputsInDepositedOrder ==
  << [type |-> "address", name |-> "user", indexed |-> TRUE],
     [type |-> "address", name |-> "assetToken", indexed |-> TRUE],
     [type |-> "address", name |-> "stablecoin", indexed |-> TRUE],
     [type |-> "uint256", name |-> "amount", indexed |-> FALSE],
     [type |-> "uint256", name |-> "tokenAmount", indexed |-> FALSE],
     [type |-> "uint256", name |-> "fee", indexed |-> FALSE] >>

RedeemedInputs ==
  << [type |-> "address", name |-> "user", indexed |-> TRUE],
     [type |-> "address", name |-> "assetToken", indexed |-> TRUE],
     [type |-> "address", name |-> "stablecoin", indexed |-> TRUE],
     [type |-> "uint256", name |-> "tokenAmount", indexed |-> FALSE],
     [type |-> "uint256", name |-> "amount", indexed |-> FALSE],
     [type |-> "uint256", name |-> "fee", indexed |-> FALSE] >>

InputsOf(eventName) == IF eventName = "Deposited" THEN DepositedInputs ELSE RedeemedInputs

\* web3.eth.abi.decodeLog: the k-th indexed input takes the k-th topic, the
\* k-th non-indexed input the k-th word of the data payload.
decodeLog(inputs, data, topics) ==
  [nm \in {inputs[i].name : i \in DOMAIN inputs} |->
     LET i == CHOOSE j \in DOMAIN inputs : inputs[j].name = nm
         k == Cardinality({j \in 1..i : inputs[j].indexed = inputs[i].indexed})
     IN IF inputs[i].indexed THEN AddressOfTopic(topics[k]) ELSE data[k]]

\* decodeLog throws when the payload is shorter than the non-indexed inputs.
Decodable(inputs, data) ==
  Len(data) >= Cardinality({j \in DOMAIN inputs : ~inputs[j].indexed})

\* The guard at the head of processDepositedEvent / processRedeemedEvent.
ValidLogIgnoringData(log) ==
  /\ Len(log.topics) >= 4
  /\ log.blockNumber # 0
  /\ log.transactionHash # ""

ValidLog(log) ==
  /\ log.data # <<>>
  /\ Len(log.topics) >= 4
  /\ log.blockNumber # 0
  /\ log.transactionHash # ""

NoEventData == [user |-> "", assetToken |-> "", stablecoin |-> "",
                amount |-> "", tokenAmount |-> "", fee |-> ""]

\* The eventData object processDepositedEvent / processRedeemedEvent build.
BuildEventData(eventName, log) ==
  LET d == decodeLog(InputsOf(eventName), log.data,
                     <<log.topics[2], log.topics[3], log.topics[4]>>)
  IN [user |-> d["user"], assetToken |-> d["assetToken"], stablecoin |-> d["stablecoin"],
      amount |-> toString(d["amount"]), tokenAmount |-> toString(d["tokenAmount"]),
      fee |-> toString(d["fee"])]

\* The row storeEventInDatabase builds from a decoded event.
dbEvent(t) ==
  LET base == [network |-> t.chainName,
               event_type |-> toLowerCase(t.eventName),
               wallet_address |-> t.eventData.user,
               asset_token_address |-> t.eventData.assetToken,
               stablecoin_address |-> t.eventData.stablecoin,
               fee |-> t.eventData.fee,
               block_number |-> parseInt(toChars(t.log.blockNumber)).val,
               transaction_hash |-> t.log.transactionHash,
               timestamp |-> t.timestamp]
      dep == [amount_deposited |-> t.eventData.amount,
              tokens_minted |-> t.eventData.tokenAmount,
              tokens_redeemed |-> "0",
              amount_returned |-> "0"]
      red == [amount_deposited |-> "0",
              tokens_minted |-> "0",
              tokens_redeemed |-> t.eventData.tokenAmount,
              amount_returned |-> t.eventData.amount]
      amounts == IF toLowerCase(t.eventName) = "deposited" THEN dep ELSE red
  IN [f \in DOMAIN base \cup DOMAIN amounts |->
        IF f \in DOMAIN base THEN base[f] ELSE amounts[f]]

\* StockManagerEventRepository.findByTxHash: some row with that hash, if any.
findByTxHashInWalletColumn(rows, txHash) ==
  {k \in DOMAIN rows : rows[k].wallet_address = txHash}

findByTxHash(rows, txHash) == {k \in DOMAIN rows : rows[k].transaction_hash = txHash}

\* ------------------------------------------------- one log's pipeline run
NoContract == [address |-> "", name |-> ""]

\* A pipeline run: path is the caller ("live", "previous" for
\* fetchAndStoreContractEvents, "dedup" for processEventWithDeduplication), pc
\* the await it is suspended at.  decoded, finds, creates and rec record what
\* the run has done: whether decodeLog was called, how many findByTxHash and
\* create calls it issued, and the index of the row it inserted (0: none).
NewTask(path, chainName, contract, log, eventName) ==
  [path |-> path, chainName |-> chainName, contract |-> contract, log |-> log,
   eventName |-> eventName, pc |-> "start", outcome |-> "",
   eventData |-> NoEventData, timestamp |-> "",
   decoded |-> FALSE, finds |-> 0, creates |-> 0, rec |-> 0]

NoTask == [NewTask("", "", NoContract, LogOther, "") EXCEPT !.pc = "none"]

Done(t, outcome) == [t EXCEPT !.pc = "done", !.outcome = outcome]

\* processDepositedEvent / processRedeemedEvent up to their first await.
processTrackedEvent(t, inputs) ==
  IF ~ValidLog(t.log) THEN Done(t, "invalid")
  ELSE IF ~Decodable(inputs, t.log.data)
       THEN Done([t EXCEPT !.decoded = TRUE], "decode_error")
       ELSE LET d == BuildEventData(t.eventName, t.log)
            IN IF d.user = "" \/ d.assetToken = "" \/ d.stablecoin = ""
               THEN Done([t EXCEPT !.decoded = TRUE], "invalid_decoded")
               ELSE [t EXCEPT !.decoded = TRUE, !.eventData = d, !.pc = "getBlock"]

processDepositedEvent(t) ==
  processTrackedEvent([t EXCEPT !.eventName = "Deposited"], DepositedInputs)

processRedeemedEvent(t) ==
  processTrackedEvent([t EXCEPT !.eventName = "Redeemed"], RedeemedInputs)

\* The signature dispatch of processLog.
DispatchUnknownAsDeposited(t) ==
  IF t.log.topics[1] = RedeemedSignature THEN processRedeemedEvent(t)
  ELSE processDepositedEvent(t)

Dispatch(t) ==
  IF t.log.topics[1] = DepositedSignature THEN processDepositedEvent(t)
  ELSE IF t.log.topics[1] = RedeemedSignature THEN processRedeemedEvent(t)
  ELSE Done(t, "unknown_signature")

\* processLog: the callback of the live subscription, up to its first await.
processLogCaseSensitive(chainName, contracts, log, conns) ==
  LET contractAddress == log.address
      found == {i \in DOMAIN contracts : contracts[i].address = contractAddress}
      t0 == NewTask("live", chainName, NoContract, log, "")
  IN IF found = {} THEN Done(t0, "unknown_contract")
     ELSE LET first == CHOOSE i \in found : \A j \in found : i <= j
              t1 == [t0 EXCEPT !.contract = contracts[first]]
          IN IF chainName \notin conns THEN Done(t1, "no_connection")
             ELSE Dispatch(t1)

processLog(chainName, contracts, log, conns) ==
  LET contractAddress == toLowerCase(log.address)
      found == {i \in DOMAIN contracts :
                  toLowerCase(contracts[i].address) = contractAddress}
      t0 == NewTask("live", chainName, NoContract, log, "")
  IN IF found = {} THEN Done(t0, "unknown_contract")
     ELSE LET first == CHOOSE i \in found : \A j \in found : i <= j
              t1 == [t0 EXCEPT !.contract = contracts[first]]
          IN IF chainName \notin conns THEN Done(t1, "no_connection")
             ELSE Dispatch(t1)

\* getBlockDateFromTimestamp: the block's timestamp, or the wall clock when
\* the lookup fails.
getBlockDateFromTimestampAborting(t, ok) ==
  IF ok THEN [t EXCEPT !.timestamp = "block", !.pc = "find"]
  ELSE Done(t, "timestamp_failed")

getBlockDateFromTimestamp(t, ok) ==
  [t EXCEPT !.timestamp = IF ok THEN "block" ELSE "clock", !.pc = "find"]

\* storeEventInDatabase, first await: the existence check.
storeEventFindBlind(t, rows, ok) ==
  LET t1 == [t EXCEPT !.finds = @ + 1]
  IN IF ~ok THEN Done(t1, "find_failed")
     ELSE [t1 EXCEPT !.pc = "create"]

\* (The existence check keyed on transaction hash and event type.)
storeEventFindPerEventType(t, rows, ok) ==
  LET t1 == [t EXCEPT !.finds = @ + 1]
  IN IF ~ok THEN Done(t1, "find_failed")
     ELSE IF \E k \in findByTxHash(rows, t.log.transactionHash) :
                rows[k].event_type = toLowerCase(t.eventName)
          THEN Done(t1, "duplicate")
     ELSE [t1 EXCEPT !.pc = "create"]

storeEventFind(t, rows, ok) ==
  LET t1 == [t EXCEPT !.finds = @ + 1]
  IN IF ~ok THEN Done(t1, "find_failed")
     ELSE IF findByTxHash(rows, t.log.transactionHash) # {} THEN Done(t1, "duplicate")
     ELSE [t1 EXCEPT !.pc = "create"]

\* StockManagerEventRepository.create: one more row.
createUnlessPresent(rows, row) ==
  IF \E k \in DOMAIN rows : rows[k].transaction_hash = row.transaction_hash
  THEN rows ELSE Append(rows, row)

\* (save as an upsert keyed on the network.)
createUpsertOnNetwork(rows, row) ==
  IF \E k \in DOMAIN rows : rows[k].network = row.network
  THEN [k \in DOMAIN rows |-> IF rows[k].network = row.network THEN row ELSE rows[k]]
  ELSE Append(rows, row)

create(rows, row) == Append(rows, row)

\* storeEventInDatabase, second await: the write.
storeEventCreateRetrying(t, rows, ok) ==
  LET t1 == [t EXCEPT !.creates = @ + 1]
  IN IF ~ok THEN (IF t.creates = 0 THEN [t1 EXCEPT !.pc = "create"]
                  ELSE Done(t1, "create_failed"))
     ELSE Done([t1 EXCEPT !.rec = Len(create(rows, dbEvent(t)))], "stored")

storeEventCreate(t, rows, ok) ==
  LET t1 == [t EXCEPT !.creates = @ + 1]
  IN IF ~ok THEN Done(t1, "create_failed")
     ELSE Done([t1 EXCEPT !.rec = Len(create(rows, dbEvent(t)))], "stored")

\* (processEventWithDeduplication without the early return on a stored hash.)
processEventWithDeduplicationNoEarlyReturn(t, rows, ok) ==
  LET t1 == [t EXCEPT !.finds = @ + 1]
  IN IF ~ok THEN Done(t1, "precheck_failed")
     ELSE IF t.eventName = "Deposited" THEN processDepositedEvent(t1)
     ELSE processRedeemedEvent(t1)

\* processEventWithDeduplication after its own findByTxHash.
processEventWithDeduplication(t, rows, ok) ==
  LET t1 == [t EXCEPT !.finds = @ + 1]
  IN IF ~ok THEN Done(t1, "precheck_failed")
     ELSE IF findByTxHash(rows, t.log.transactionHash) # {} THEN Done(t1, "precheck_duplicate")
     ELSE IF t.eventName = "Deposited" THEN processDepositedEvent(t1)
     ELSE processRedeemedEvent(t1)

\* ----------------------------------------------------------------- sweeps
\* A backfill sweep: performHourlyBackfill ("hourly"), triggerManualBackfill
\* ("manual") or storePreviousEvents ("previous").  pc is the await it is
\* suspended at; windows, blockReads and doneTasks record the getPastLogs
\* windows it has issued, the block numbers it has read and the pipeline runs
\* it has finished; errors records each rejected call with the function whose
\* catch block took it.
NewSweep(kind, configs, blockCount, fromArg) ==
  [kind |-> kind, configs |-> configs, blockCount |-> blockCount, fromArg |-> fromArg,
   pc |-> "network", netIdx |-> 1, ctrIdx |-> 1,
   currentBlock |-> 0, fromBlock |-> Num(0), block |-> Num(0), endBlock |-> 0,
   depositedEvents |-> <<>>, pending |-> <<>>, task |-> NoTask, doneTasks |-> <<>>,
   totalProcessed |-> 0, totalSkipped |-> 0,
   windows |-> <<>>, blockReads |-> <<>>, errors |-> <<>>,
   trace |-> <<>>, inFlight |-> 0,
   returned |-> 0, firstTask |-> 1, tallies |-> <<>>]

NetOf(s) == s.configs[s.netIdx]
ContractOf(s) == NetOf(s).contracts[s.ctrIdx]

\* The first log of s.pending enters the pipeline: through
\* processEventWithDeduplication in a reconciliation sweep, straight into
\* processDepositedEvent / processRedeemedEvent in storePreviousEvents.
\* (Both loops of fetchAndStoreContractEvents calling processDepositedEvent.)
StartTaskAllDeposited(s) ==
  LET p == Head(s.pending)
      t == NewTask(IF s.kind = "previous" THEN "previous" ELSE "dedup",
                   NetOf(s).name, ContractOf(s), p.log, p.eventType)
  IN IF s.kind = "previous"
     THEN processDepositedEvent(t)
     ELSE [t EXCEPT !.pc = "precheck"]

StartTask(s) ==
  LET p == Head(s.pending)
      t == NewTask(IF s.kind = "previous" THEN "previous" ELSE "dedup",
                   NetOf(s).name, ContractOf(s), p.log, p.eventType)
  IN IF s.kind = "previous"
     THEN (IF p.eventType = "Deposited" THEN processDepositedEvent(t)
           ELSE processRedeemedEvent(t))
     ELSE [t EXCEPT !.pc = "precheck"]

\* The for-loop header of fetchAndStoreContractEvents[WithDeduplication]:
\* the next window [block, min(block + batchSize - 1, toBlock)], if any.
WindowEndPlusOne(s) ==
  MathMin(JsAdd(s.block, Num(batchSize)), Num(s.currentBlock)).val

WindowEnd(s) ==
  MathMin(JsSub(JsAdd(s.block, Num(batchSize)), Num(1)), Num(s.currentBlock)).val

\* s.trace records, in order, the getPastLogs calls the sweep issues with
\* their filter, and the logs it has finished processing; s.inFlight counts
\* the getPastLogs calls issued and not yet answered.
QueryIssued(s, topic) ==
  [op |-> "query", net |-> NetOf(s).name, address |-> ContractOf(s).address,
   fromBlock |-> s.block.val, toBlock |-> WindowEnd(s), topic |-> topic, hash |-> ""]

LogProcessed(s) ==
  [op |-> "log", net |-> NetOf(s).name, address |-> ContractOf(s).address,
   fromBlock |-> s.task.log.blockNumber, toBlock |-> s.task.log.blockNumber,
   topic |-> s.task.log.topics[1], hash |-> s.task.log.transactionHash]

\* s.returned counts the logs the getPastLogs calls of the current contract
\* have returned; s.tallies records, when the scan of a contract ends, the
\* counters totalProcessed and totalSkipped, s.returned, the Deposited logs
\* dropped with the window, and which entries of doneTasks belong to it.
Tally(s, failed, dropped) ==
  [net |-> NetOf(s).name, contract |-> ContractOf(s).address,
   totalProcessed |-> s.totalProcessed, totalSkipped |-> s.totalSkipped,
   returned |-> s.returned, failed |-> failed, dropped |-> dropped,
   firstTask |-> s.firstTask, lastTask |-> Len(s.doneTasks)]

\* One synchronous stretch of a sweep (no await inside).
SyncStep(s, conns) ==
  CASE s.pc = "network" ->
         IF s.netIdx > Len(s.configs) THEN [s EXCEPT !.pc = "done"]
         ELSE IF NetOf(s).name \notin conns THEN [s EXCEPT !.netIdx = @ + 1]
         ELSE [s EXCEPT !.pc = "getBlockNumber"]
    [] s.pc = "contract" ->
         IF s.ctrIdx > Len(NetOf(s).contracts)
         THEN [s EXCEPT !.netIdx = @ + 1, !.pc = "network"]
         ELSE [s EXCEPT !.block = s.fromBlock, !.totalProcessed = 0,
                        !.totalSkipped = 0, !.returned = 0,
                        !.firstTask = Len(s.doneTasks) + 1, !.pc = "window"]
    [] s.pc = "window" ->
         IF JsLeq(s.block, Num(s.currentBlock))
         THEN [s EXCEPT !.endBlock = WindowEnd(s),
                        !.windows = Append(@, [net |-> NetOf(s).name,
                                                contract |-> ContractOf(s).address,
                                                from |-> s.block.val,
                                                to |-> WindowEnd(s),
                                                queries |-> 1, failed |-> FALSE]),
                        !.trace = Append(@, QueryIssued(s, DepositedSignature)),
                        !.inFlight = @ + 1,
                        !.pc = "queryDeposited"]
         ELSE [s EXCEPT !.ctrIdx = @ + 1, !.pc = "contract",
                        !.tallies = Append(@, Tally(s, FALSE, 0))]
    [] s.pc = "logs" ->
         IF s.pending = <<>>
         THEN [s EXCEPT !.block = JsAdd(@, Num(batchSize)), !.pc = "window"]
         ELSE [s EXCEPT !.task = StartTask(s), !.pending = Tail(@), !.pc = "task"]
    [] s.pc = "task" ->
         LET wasProcessed == s.task.outcome \notin {"precheck_duplicate", "precheck_failed"}
         IN [s EXCEPT !.doneTasks = Append(@, s.task), !.task = NoTask,
                      !.trace = Append(@, LogProcessed(s)),
                      !.totalProcessed = IF wasProcessed THEN @ + 1 ELSE @,
                      !.totalSkipped = IF wasProcessed THEN @ ELSE @ + 1,
                      !.pc = "logs"]

IsSync(s) == \/ s.pc \in {"network", "contract", "window", "logs"}
             \/ s.pc = "task" /\ s.task.pc = "done"

\* Run a sweep up to its next await.
RECURSIVE Settle(_, _)
Settle(s, conns) == IF IsSync(s) THEN Settle(SyncStep(s, conns), conns) ELSE s

\* backfillLastBlocks after getBlockNumber: the trailing range of blockCount blocks.
BackfillFromBlockUnclamped(currentBlock, blockCount) ==
  JsSub(Num(currentBlock), blockCount)

BackfillFromBlock(currentBlock, blockCount) ==
  MathMax(Num(0), JsSub(Num(currentBlock), blockCount))

\* (The start block without the clamp at block 0.)
PreviousStartBlockUnclamped(currentBlock, fromArg) ==
  IF Truthy(fromArg) THEN fromArg
  ELSE JsSub(Num(currentBlock), Num(PreviousLookback))

\* storePreviousEventsForChain after getBlockNumber.
PreviousStartBlock(currentBlock, fromArg) ==
  IF Truthy(fromArg) THEN fromArg
  ELSE MathMax(Num(0), JsSub(Num(currentBlock), Num(PreviousLookback)))

\* ---------------------------------------------------------------- holders
\* Who holds a pipeline run: a live callback or a sweep.
Holders == {[kind |-> "live", i |-> i] : i \in DOMAIN live}
             \cup {[kind |-> "sweep", i |-> i] : i \in DOMAIN sweeps}

TaskOf(h) == IF h.kind = "live" THEN live[h.i] ELSE sweeps[h.i].task

\* (A sweep that takes every configured network as connected.)
SettleHereAllConnected(s) == Settle(s, NetworkNames)

\* A sweep runs on to its next await under the connections held now.
SettleHere(s) == Settle(s, web3Connections)

\* The holder's run moves to t; a sweep whose run has finished goes on to
\* its next await.
Resume(h, t) ==
  IF h.kind = "live"
  THEN /\ live' = [live EXCEPT ![h.i] = t]
       /\ UNCHANGED sweeps
  ELSE /\ sweeps' = [sweeps EXCEPT ![h.i] = SettleHere([@ EXCEPT !.task = t])]
       /\ UNCHANGED live

\* Every pipeline run, running or finished.
AllTasks == {live[i] : i \in DOMAIN live}
              \cup {sweeps[i].task : i \in {j \in DOMAIN sweeps : sweeps[j].task.pc # "none"}}
              \cup UNION {{sweeps[i].doneTasks[k] : k \in DOMAIN sweeps[i].doneTasks} :
                          i \in DOMAIN sweeps}

\* Flows started so far: deliveries, sweeps and rejected requests.
Started == Len(live) + Len(sweeps)
             + Cardinality({r \in DOMAIN requests : requests[r].status = "rejected"})

\* --------------------------------------------------------- connection pass
envVars == <<config, budget, faults>>
connVars == <<blockchainConfigs, web3Connections, connected, backfillInterval,
              oneShot, timers, observers, boot>>
subVars == <<subscriptions, subscribing, openSubs, rejected, nSignals>>

\* connectToChain throws at once on a blank url: the first configuration at
\* or after j that gets as far as the chain-id request.
RECURSIVE NextConnectable(_, _)
NextConnectableStopAtBlank(cfgs, j) ==
  IF j > Len(cfgs) THEN j
  ELSE IF trim(cfgs[j].wssUrl) = "" THEN Len(cfgs) + 1
  ELSE j

NextConnectable(cfgs, j) ==
  IF j > Len(cfgs) THEN j
  ELSE IF trim(cfgs[j].wssUrl) = "" THEN NextConnectable(cfgs, j + 1)
  ELSE j

\* The timers of startHourlyBackfill: clearInterval on the stored recurring
\* timer if there is one, then a new setInterval whose handle is stored.
\* (Arming that leaves the previous recurring timer running.)
RearmedWithoutClear(handle, recurring) == recurring + 1

Rearmed(handle, recurring) ==
  (IF handle THEN recurring - 1 ELSE recurring) + 1

\* The body of startHourlyBackfill: the recurring timer is replaced and one
\* more setTimeout is pending, whose handle is dropped.
ArmTimers ==
  /\ timers' = [timers EXCEPT !.recurring = Rearmed(backfillInterval, @),
                              !.armings = @ + 1]
  /\ backfillInterval' = TRUE
  /\ oneShot' = oneShot + 1

\* The connection pass goes on with configuration j; past the last one
\* connectToMultipleChains sets connected and calls startHourlyBackfill, which
\* arms the one-shot and the recurring timer.
\* (Body of the connection pass with the timers armed after every attempt.)
ContinuePassArmingEarly(cfgs, j, attempts) ==
  LET k == NextConnectable(cfgs, j)
      all == attempts \o [i \in 1..(k - j) |-> [name |-> cfgs[j + i - 1].name,
                                                 result |-> "blank"]]
  IN /\ boot' = [pc |-> IF k <= Len(cfgs) THEN "chainId" ELSE "done",
                 idx |-> k, attempts |-> all]
     /\ connected' = (k > Len(cfgs))
     /\ ArmTimers

\* boot.attempts records how connectToChain ended for each configuration
\* visited so far: "blank" (thrown for an empty url), "failed" (getChainId
\* rejected) or "connected".
ContinuePass(cfgs, j, attempts) ==
  LET k == NextConnectable(cfgs, j)
      all == attempts \o [i \in 1..(k - j) |-> [name |-> cfgs[j + i - 1].name,
                                                 result |-> "blank"]]
  IN IF k <= Len(cfgs)
     THEN /\ boot' = [pc |-> "chainId", idx |-> k, attempts |-> all]
          /\ UNCHANGED <<connected, backfillInterval, oneShot, timers>>
     ELSE /\ boot' = [pc |-> "done", idx |-> k, attempts |-> all]
          /\ connected' = TRUE
          /\ ArmTimers

\* main.ts: bootstrap calls connectToMultipleChains(blockchainConfigs).
connectToMultipleChains ==
  /\ boot.pc = "init"
  /\ blockchainConfigs' = config
  /\ ContinuePass(config, 1, <<>>)
  /\ UNCHANGED <<envVars, shutdown, head, web3Connections, observers, subVars,
                 live, sweeps, requests, store>>

\* What connectToChain does once the chain-id request has answered: the
\* connection is kept and the provider's observers are registered.  It does
\* not subscribe: the 'connect' observer does (providerConnect).
ConnectionMade(name) ==
  /\ web3Connections' = web3Connections \cup {name}
  /\ observers' = observers \cup {name}

\* connectToChain resumes after await web3.eth.getChainId().
connectToChain ==
  /\ boot.pc = "chainId"
  /\ \E ok \in Outcomes("getChainId") :
       /\ IF ok THEN ConnectionMade(blockchainConfigs[boot.idx].name)
          ELSE UNCHANGED <<web3Connections, observers>>
       /\ ContinuePass(blockchainConfigs, boot.idx + 1,
                       Append(boot.attempts,
                              [name |-> blockchainConfigs[boot.idx].name,
                               result |-> IF ok THEN "connected" ELSE "failed"]))
  /\ UNCHANGED <<envVars, shutdown, head, blockchainConfigs, subVars,
                 live, sweeps, requests, store>>

\* The transport emits 'connect' on a provider whose observers are
\* registered; the observer calls subscribeToEvents, which issues
\* eth_subscribe when the network has a connection.
providerConnect(n) ==
  /\ n \in observers
  /\ nSignals < MaxSignals
  /\ nSignals' = nSignals + 1
  /\ subscribing' = IF n \in web3Connections
                    THEN [subscribing EXCEPT ![n] = @ + 1] ELSE subscribing
  /\ UNCHANGED <<envVars, shutdown, head, connVars, subscriptions, openSubs, rejected,
                 live, sweeps, requests, store>>

\* The transport emits 'error', 'end' or 'close' on a provider whose
\* observers are registered: each observer writes a log line.
providerNotice(n) ==
  /\ n \in observers
  /\ nSignals < MaxSignals
  /\ nSignals' = nSignals + 1
  /\ UNCHANGED <<envVars, shutdown, head, connVars, subscriptions, subscribing, openSubs,
                 rejected, live, sweeps, requests, store>>

\* subscribeToEvents resumes after await web3.eth.subscribe('logs', ...).
subscribeToEvents(n) ==
  /\ subscribing[n] > 0
  /\ subscribing' = [subscribing EXCEPT ![n] = @ - 1]
  /\ \E ok \in Outcomes("subscribe") :
       IF ok
       THEN /\ openSubs' = [openSubs EXCEPT ![n] = @ + 1]
            /\ subscriptions' = subscriptions \cup {n}
            /\ rejected' = rejected
       ELSE /\ rejected' = rejected \cup {n}
            /\ UNCHANGED <<openSubs, subscriptions>>
  /\ UNCHANGED <<envVars, shutdown, head, connVars, nSignals, live, sweeps, requests, store>>

\* ---------------------------------------------------------------- live path
ContractsOfConfig(n) ==
  LET i == CHOOSE j \in DOMAIN config : config[j].name = n IN config[i].contracts

\* An open subscription of network n delivers a log: subscription.on('data').
subscriptionData(n, log) ==
  /\ openSubs[n] > 0
  /\ Started < budget
  /\ log.net = n
  /\ log.blockNumber <= head[n]
  /\ live' = Append(live, processLog(n, ContractsOfConfig(n), log, web3Connections))
  /\ UNCHANGED <<envVars, shutdown, head, connVars, subVars, sweeps, requests, store>>

\* ------------------------------------------------------ pipeline awaits
\* await getBlockDateFromTimestamp(...) answers.
getBlock(h) ==
  /\ TaskOf(h).pc = "getBlock"
  /\ \E ok \in Outcomes("getBlock") : Resume(h, getBlockDateFromTimestamp(TaskOf(h), ok))
  /\ UNCHANGED <<envVars, shutdown, head, connVars, subVars, requests, store>>

\* await this.eventRepository.findByTxHash(...) answers in storeEventInDatabase.
storeEventInDatabaseFind(h) ==
  /\ TaskOf(h).pc = "find"
  /\ \E ok \in Outcomes("findByTxHash") : Resume(h, storeEventFind(TaskOf(h), store, ok))
  /\ UNCHANGED <<envVars, shutdown, head, connVars, subVars, requests, store>>

\* await this.eventRepository.create(dbEvent) answers in storeEventInDatabase.
storeEventInDatabaseCreate(h) ==
  /\ TaskOf(h).pc = "create"
  /\ \E ok \in Outcomes("create") :
       /\ Resume(h, storeEventCreate(TaskOf(h), store, ok))
       /\ store' = IF ok THEN create(store, dbEvent(TaskOf(h))) ELSE store
  /\ UNCHANGED <<envVars, shutdown, head, connVars, subVars, requests>>

\* await this.eventRepository.findByTxHash(...) answers in
\* processEventWithDeduplication.
dedupFind(h) ==
  /\ TaskOf(h).pc = "precheck"
  /\ \E ok \in Outcomes("findByTxHash") :
       Resume(h, processEventWithDeduplication(TaskOf(h), store, ok))
  /\ UNCHANGED <<envVars, shutdown, head, connVars, subVars, requests, store>>

\* ------------------------------------------------------------ sweep awaits
\* backfillLastBlocks / storePreviousEventsForChain once getBlockNumber has
\* answered: the range is fixed for all contracts of the network; a failure
\* is caught and the network is left.
AfterBlockNumber(s, ok, currentBlock) ==
  IF ok
  THEN [s EXCEPT !.currentBlock = currentBlock,
                 !.fromBlock = IF s.kind = "previous"
                               THEN PreviousStartBlock(currentBlock, s.fromArg)
                               ELSE BackfillFromBlock(currentBlock, s.blockCount),
                 !.blockReads =
                    Append(@, [net |-> NetOf(s).name, value |-> currentBlock,
                               from |-> IF s.kind = "previous"
                                        THEN PreviousStartBlock(currentBlock, s.fromArg)
                                        ELSE BackfillFromBlock(currentBlock, s.blockCount)]),
                 !.ctrIdx = 1, !.pc = "contract"]
  ELSE [s EXCEPT !.netIdx = @ + 1, !.pc = "network",
                 !.errors = Append(@, [call |-> "getBlockNumber",
                                       caughtBy |-> IF s.kind = "previous"
                                                    THEN "storePreviousEventsForChain"
                                                    ELSE "backfillLastBlocks"])]

\* await web3.eth.getBlockNumber() answers in backfillLastBlocks.
backfillLastBlocks(j) ==
  /\ sweeps[j].pc = "getBlockNumber"
  /\ sweeps[j].kind # "previous"
  /\ \E ok \in Outcomes("getBlockNumber") :
       sweeps' = [sweeps EXCEPT ![j] =
                    SettleHere(AfterBlockNumber(@, ok, head[NetOf(@).name]))]
  /\ UNCHANGED <<envVars, shutdown, head, connVars, subVars, live, requests, store>>

\* await web3.eth.getBlockNumber() answers in storePreviousEventsForChain.
storePreviousEventsForChain(j) ==
  /\ sweeps[j].pc = "getBlockNumber"
  /\ sweeps[j].kind = "previous"
  /\ \E ok \in Outcomes("getBlockNumber") :
       sweeps' = [sweeps EXCEPT ![j] =
                    SettleHere(AfterBlockNumber(@, ok, head[NetOf(@).name]))]
  /\ UNCHANGED <<envVars, shutdown, head, connVars, subVars, live, requests, store>>

\* A rejected getPastLogs is caught by the try around the whole window loop:
\* the remaining windows of the contract are not queried.
QueryFailed(s) ==
  [s EXCEPT !.ctrIdx = @ + 1, !.pc = "contract",
            !.inFlight = @ - 1,
            !.windows = [@ EXCEPT ![Len(@)].failed = TRUE],
            !.tallies = Append(@, Tally(s, TRUE, IF s.pc = "queryRedeemed"
                                                 THEN Len(s.depositedEvents) ELSE 0)),
            !.errors = Append(@, [call |-> "getPastLogs",
                                  caughtBy |-> IF s.kind = "previous"
                                               THEN "fetchAndStoreContractEvents"
                                               ELSE "fetchAndStoreContractEventsWithDeduplication"])]

\* The Deposited getPastLogs of the window answers; the Redeemed one is issued.
AfterDepositedSkippingRedeemed(s, ok) ==
  IF ok
  THEN LET dep == getPastLogs(NetOf(s).name, ContractOf(s).address,
                              s.block.val, s.endBlock, DepositedSignature)
       IN [s EXCEPT !.pending = [i \in DOMAIN dep |-> [log |-> dep[i], eventType |-> "Deposited"]],
                    !.inFlight = @ - 1,
                    !.pc = "logs"]
  ELSE QueryFailed(s)

AfterDeposited(s, ok) ==
  IF ok
  THEN [s EXCEPT !.depositedEvents =
                    getPastLogs(NetOf(s).name, ContractOf(s).address,
                                s.block.val, s.endBlock, DepositedSignature),
                 !.returned = @ + Len(getPastLogs(NetOf(s).name, ContractOf(s).address,
                                                  s.block.val, s.endBlock, DepositedSignature)),
                 !.windows = [@ EXCEPT ![Len(@)].queries = 2],
                 !.trace = Append(@, [QueryIssued(s, RedeemedSignature)
                                        EXCEPT !.toBlock = s.endBlock]),
                 !.pc = "queryRedeemed"]
  ELSE QueryFailed(s)

\* The Redeemed getPastLogs answers: Deposited logs are processed first.
AfterRedeemedOnly(s, ok) ==
  IF ok
  THEN LET red == getPastLogs(NetOf(s).name, ContractOf(s).address,
                              s.block.val, s.endBlock, RedeemedSignature)
       IN [s EXCEPT !.pending = [i \in DOMAIN red |-> [log |-> red[i], eventType |-> "Redeemed"]],
                    !.depositedEvents = <<>>,
                    !.inFlight = @ - 1,
                    !.pc = "logs"]
  ELSE QueryFailed(s)

AfterRedeemed(s, ok) ==
  IF ok
  THEN LET red == getPastLogs(NetOf(s).name, ContractOf(s).address,
                              s.block.val, s.endBlock, RedeemedSignature)
       IN [s EXCEPT !.pending =
                       [i \in DOMAIN s.depositedEvents |->
                          [log |-> s.depositedEvents[i], eventType |-> "Deposited"]]
                       \o [i \in DOMAIN red |-> [log |-> red[i], eventType |-> "Redeemed"]],
                    !.returned = @ + Len(red),
                    !.depositedEvents = <<>>,
                    !.inFlight = @ - 1,
                    !.pc = "logs"]
  ELSE QueryFailed(s)

fetchDeposited(j) ==
  /\ sweeps[j].pc = "queryDeposited"
  /\ \E ok \in Outcomes("getPastLogs") :
       sweeps' = [sweeps EXCEPT ![j] = SettleHere(AfterDeposited(@, ok))]
  /\ UNCHANGED <<envVars, shutdown, head, connVars, subVars, live, requests, store>>

fetchRedeemed(j) ==
  /\ sweeps[j].pc = "queryRedeemed"
  /\ \E ok \in Outcomes("getPastLogs") :
       sweeps' = [sweeps EXCEPT ![j] = SettleHere(AfterRedeemed(@, ok))]
  /\ UNCHANGED <<envVars, shutdown, head, connVars, subVars, live, requests, store>>

\* ---------------------------------------------------------------- triggers
\* A timer set by startHourlyBackfill fires: performHourlyBackfill sweeps the
\* last HourlyLookback blocks of every configured network.
performHourlyBackfill(timer) ==
  /\ Started < budget
  /\ IF timer = "oneShot"
     THEN /\ oneShot > 0
          /\ oneShot' = oneShot - 1
          /\ timers' = [timers EXCEPT !.expired = @ + 1]
     ELSE /\ timers.recurring > 0
          /\ UNCHANGED <<oneShot, timers>>
  /\ sweeps' = Append(sweeps, SettleHere(NewSweep("hourly", blockchainConfigs,
                                              Num(HourlyLookback), Num(0))))
  /\ UNCHANGED <<envVars, shutdown, head, blockchainConfigs, web3Connections, connected,
                 backfillInterval, observers, boot, subVars, live, requests, store>>

\* The bounds check of Web3Controller.triggerBackfill.
BlockCountRejected(n) == JsLeq(n, Num(0)) \/ JsGt(n, Num(MaxBlockCount))

\* POST /web3/trigger-backfill?blockCount=...  (an absent or empty parameter
\* is <<>>).  The application listens only after the connection pass.
triggerBackfillPreempting(blockCount) ==
  LET blockCountNumber == IF blockCount # <<>> THEN parseInt(blockCount)
                          ELSE Num(DefaultBlockCount)
      req == [endpoint |-> "trigger-backfill", input |-> blockCount,
              chainId |-> 0, number |-> blockCountNumber,
              status |-> "", sweep |-> 0]
  IN /\ boot.pc = "done"
     /\ Started < budget
     /\ IF BlockCountRejected(blockCountNumber)
        THEN /\ requests' = Append(requests, [req EXCEPT !.status = "rejected", !.sweep = 0])
             /\ UNCHANGED sweeps
        ELSE /\ sweeps' = Append([j \in DOMAIN sweeps |-> [sweeps[j] EXCEPT !.pc = "done"]],
                                 SettleHere(NewSweep("manual", blockchainConfigs,
                                                     blockCountNumber, Num(0))))
             /\ requests' = Append(requests, [req EXCEPT !.status = "accepted",
                                                         !.sweep = Len(sweeps) + 1])
     /\ UNCHANGED <<envVars, shutdown, head, connVars, subVars, live, store>>

triggerBackfill(blockCount) ==
  LET blockCountNumber == IF blockCount # <<>> THEN parseInt(blockCount)
                          ELSE Num(DefaultBlockCount)
      req == [endpoint |-> "trigger-backfill", input |-> blockCount,
              chainId |-> 0, number |-> blockCountNumber,
              status |-> "", sweep |-> 0]
  IN /\ boot.pc = "done"
     /\ Started < budget
     /\ IF BlockCountRejected(blockCountNumber)
        THEN /\ requests' = Append(requests, [req EXCEPT !.status = "rejected", !.sweep = 0])
             /\ UNCHANGED sweeps
        ELSE /\ sweeps' = Append(sweeps, SettleHere(NewSweep("manual", blockchainConfigs,
                                                         blockCountNumber, Num(0))))
             /\ requests' = Append(requests, [req EXCEPT !.status = "accepted",
                                                         !.sweep = Len(sweeps) + 1])
     /\ UNCHANGED <<envVars, shutdown, head, connVars, subVars, live, store>>

\* triggerManualBackfill re-throws what reaches its own catch block, that is
\* a failure no function below it has caught; the controller then answers
\* success: false, and success: true when the call returns.
triggerBackfillResponse(r) ==
  IF r.status = "rejected" THEN "BadRequest"
  ELSE LET s == sweeps[r.sweep]
           escaped == {i \in DOMAIN s.errors : s.errors[i].caughtBy = "triggerManualBackfill"}
       IN IF escaped # {} THEN "failure"
          ELSE IF s.pc = "done" THEN "success"
          ELSE "pending"

\* POST /web3/store-previous-events with body {chainId, fromBlock} and query
\* fromBlock (absent or empty: <<>>); an undefined body.fromBlock is Num(0),
\* which is falsy like undefined.
storePreviousEventsOf(body, fromBlock) ==
  LET chainId == body.chainId
      fromBlockNumber == IF fromBlock # <<>> THEN parseInt(fromBlock) ELSE body.fromBlock
      found == {i \in DOMAIN config : config[i].chainId = chainId}
      req == [endpoint |-> "store-previous-events", input |-> fromBlock,
              chainId |-> chainId, number |-> fromBlockNumber,
              body |-> body.fromBlock, status |-> "", sweep |-> 0]
      bad == \/ chainId = 0
             \/ found = {}
             \/ \E i \in found : trim(config[i].wssUrl) = ""
  IN /\ boot.pc = "done"
     /\ Started < budget
     /\ IF bad
        THEN /\ requests' = Append(requests, [req EXCEPT !.status = "rejected", !.sweep = 0])
             /\ UNCHANGED sweeps
        ELSE /\ sweeps' = Append(sweeps,
                    SettleHere(NewSweep("previous",
                                    <<config[CHOOSE i \in found : \A k \in found : i <= k]>>,
                                    Num(0), fromBlockNumber)))
             /\ requests' = Append(requests, [req EXCEPT !.status = "accepted",
                                                         !.sweep = Len(sweeps) + 1])
     /\ UNCHANGED <<envVars, shutdown, head, connVars, subVars, live, store>>

\* The request with no fromBlock in its body.
storePreviousEvents(chainId, fromBlock) ==
  storePreviousEventsOf([chainId |-> chainId, fromBlock |-> Num(0)], fromBlock)

\* The controller answers a store-previous-events request: success: false
\* only for a failure that none of storePreviousEvents,
\* storePreviousEventsForChain and fetchAndStoreContractEvents has caught.
storePreviousEventsResponse(r) ==
  IF r.status = "rejected" THEN "BadRequest"
  ELSE LET s == sweeps[r.sweep]
           escaped == {i \in DOMAIN s.errors :
                         s.errors[i].caughtBy \notin {"storePreviousEvents",
                                                      "storePreviousEventsForChain",
                                                      "fetchAndStoreContractEvents"}}
       IN IF escaped # {} THEN "failure"
          ELSE IF s.pc = "done" THEN "success"
          ELSE "pending"

\* The chain grows: the network's head moves to the next height modelled.
HeadValues == <<999, 2500>>

NewBlock(n) ==
  /\ n \in web3Connections
  /\ \E i \in 1..(Len(HeadValues) - 1) :
       /\ head[n] = HeadValues[i]
       /\ head' = [head EXCEPT ![n] = HeadValues[i + 1]]
  /\ UNCHANGED <<envVars, shutdown, connVars, subVars, live, sweeps, requests, store>>

\* ---------------------------------------------------------------- shutdown
\* getBackfillStatus: isRunning is "backfillInterval !== null".
getBackfillStatusWhileSweeping ==
  [isRunning |-> \E j \in DOMAIN sweeps : sweeps[j].pc # "done"]

getBackfillStatus ==
  [isRunning |-> backfillInterval]

\* isConnected.
isConnected == connected

\* getWeb3Instance(chainName): whether the connection map has an entry.
getWeb3Instance(chainName) == chainName \in web3Connections

\* The body of stopHourlyBackfill: with a stored handle, clearInterval and the
\* handle is reset; without one, nothing.
ClearTimers ==
  IF backfillInterval
  THEN /\ timers' = [timers EXCEPT !.recurring = @ - 1]
       /\ backfillInterval' = FALSE
  ELSE /\ timers' = [timers EXCEPT !.idleStops = @ + 1]
       /\ UNCHANGED backfillInterval

\* stopHourlyBackfill, called on its own: clearInterval on the recurring
\* timer.  The handle of the one-shot setTimeout was never kept, so that
\* timer stays pending.
stopHourlyBackfill ==
  /\ boot.pc = "done"
  /\ shutdown.pc = "idle"
  /\ backfillInterval
  /\ ClearTimers
  /\ shutdown' = [shutdown EXCEPT !.stopped = TRUE]
  /\ UNCHANGED <<envVars, head, blockchainConfigs, web3Connections, connected, oneShot,
                 observers, boot, subVars, live, sweeps, requests, store>>

\* stopHourlyBackfill called while no recurring timer is stored.
stopHourlyBackfillIdle ==
  /\ boot.pc = "done"
  /\ shutdown.pc = "idle"
  /\ ~backfillInterval
  /\ timers.idleStops < MaxArmings
  /\ ClearTimers
  /\ shutdown' = [shutdown EXCEPT !.stopped = TRUE]
  /\ UNCHANGED <<envVars, head, blockchainConfigs, web3Connections, connected, oneShot,
                 observers, boot, subVars, live, sweeps, requests, store>>

\* startHourlyBackfill called again after the connection pass, whether the
\* scheduler is running or was stopped.
startHourlyBackfill ==
  /\ boot.pc = "done"
  /\ shutdown.pc = "idle"
  /\ timers.armings < MaxArmings
  /\ ArmTimers
  /\ shutdown' = [shutdown EXCEPT !.stopped = FALSE]
  /\ UNCHANGED <<envVars, head, blockchainConfigs, web3Connections, connected,
                 observers, boot, subVars, live, sweeps, requests, store>>

\* (disconnect that leaves the connected flag as it is.)
ContinueDisconnectKeepingFlag(sd) ==
  IF sd.pc = "unsubscribe" /\ subscriptions \ sd.unsubscribed # {}
  THEN /\ shutdown' = sd
       /\ UNCHANGED <<subscriptions, web3Connections, connected>>
  ELSE IF web3Connections \ sd.disconnected # {}
  THEN /\ shutdown' = [sd EXCEPT !.pc = "disconnect"]
       /\ UNCHANGED <<subscriptions, web3Connections, connected>>
  ELSE /\ shutdown' = [sd EXCEPT !.pc = "done"]
       /\ subscriptions' = {}
       /\ web3Connections' = {}
       /\ connected' = connected

\* disconnect goes on from position sd: the next subscription of the map to
\* unsubscribe, then the next connection to close, then both maps are
\* cleared and connected is reset.
ContinueDisconnect(sd) ==
  IF sd.pc = "unsubscribe" /\ subscriptions \ sd.unsubscribed # {}
  THEN /\ shutdown' = sd
       /\ UNCHANGED <<subscriptions, web3Connections, connected>>
  ELSE IF web3Connections \ sd.disconnected # {}
  THEN /\ shutdown' = [sd EXCEPT !.pc = "disconnect"]
       /\ UNCHANGED <<subscriptions, web3Connections, connected>>
  ELSE /\ shutdown' = [sd EXCEPT !.pc = "done"]
       /\ subscriptions' = {}
       /\ web3Connections' = {}
       /\ connected' = FALSE

\* onModuleDestroy: stopHourlyBackfill, then disconnect up to its first await.
onModuleDestroy ==
  /\ boot.pc = "done"
  /\ shutdown.pc = "idle"
  /\ ClearTimers
  /\ ContinueDisconnect([shutdown EXCEPT !.pc = "unsubscribe", !.stopped = TRUE])
  /\ UNCHANGED <<envVars, head, blockchainConfigs, oneShot, observers, boot,
                 subscribing, openSubs, rejected, nSignals, live, sweeps, requests, store>>

\* disconnect resumes after await subscription.unsubscribe() for network n;
\* a rejection is caught and logged.
unsubscribe(n) ==
  /\ shutdown.pc = "unsubscribe"
  /\ n \in subscriptions \ shutdown.unsubscribed
  /\ \E ok \in Outcomes("unsubscribe") :
       openSubs' = IF ok THEN [openSubs EXCEPT ![n] = @ - 1] ELSE openSubs
  /\ ContinueDisconnect([shutdown EXCEPT !.unsubscribed = @ \cup {n}])
  /\ UNCHANGED <<envVars, head, blockchainConfigs, backfillInterval, oneShot, timers,
                 observers, boot, subscribing, rejected, nSignals, live, sweeps, requests,
                 store>>

\* disconnect resumes after await provider.disconnect() for network n; a
\* closed socket delivers no more logs; a rejection is caught and logged.
providerDisconnect(n) ==
  /\ shutdown.pc = "disconnect"
  /\ n \in web3Connections \ shutdown.disconnected
  /\ \E ok \in Outcomes("disconnect") :
       openSubs' = IF ok THEN [openSubs EXCEPT ![n] = 0] ELSE openSubs
  /\ ContinueDisconnect([shutdown EXCEPT !.disconnected = @ \cup {n}])
  /\ UNCHANGED <<envVars, head, blockchainConfigs, backfillInterval, oneShot, timers,
                 observers, boot, subscribing, rejected, nSignals, live, sweeps, requests,
                 store>>

ShutdownActions ==
  \/ stopHourlyBackfill
  \/ onModuleDestroy
  \/ \E n \in NetworkNames : unsubscribe(n)
  \/ \E n \in NetworkNames : providerDisconnect(n)

\* ----------------------------------------------------------- specifications
\* The values of the blockCount and fromBlock query parameters tried.
BlockCountInputs == { <<>>, <<"0">>, <<"1">>, <<"1", "5", "0", "0">>,
                      <<"5", "0", "0", "0", "0">>, <<"5", "0", "0", "0", "1">>,
                      <<"-", "5">>, <<"a", "b", "c">> }
FromBlockInputs == { <<>>, <<"1", "0", "0", "0">> }
ChainIdInputs == {0, 56, 999}

\* The state after construction of the service, in an environment given by
\* the urls configured, the calls that can fail and the chain heads.
InitWith(urlChoices, faultChoices, headChoices, flows) ==
  /\ \E urls \in urlChoices : config = ConfigList(urls)
  /\ budget = flows
  /\ faults \in faultChoices
  /\ head \in headChoices
  /\ blockchainConfigs = <<>>
  /\ web3Connections = {}
  /\ subscriptions = {}
  /\ connected = FALSE
  /\ backfillInterval = FALSE
  /\ oneShot = 0
  /\ timers = [recurring |-> 0, armings |-> 0, expired |-> 0, idleStops |-> 0]
  /\ observers = {}
  /\ subscribing = [n \in NetworkNames |-> 0]
  /\ rejected = {}
  /\ openSubs = [n \in NetworkNames |-> 0]
  /\ boot = [pc |-> "init", idx |-> 0, attempts |-> <<>>]
  /\ live = <<>>
  /\ sweeps = <<>>
  /\ requests = <<>>
  /\ store = <<>>
  /\ nSignals = 0
  /\ shutdown = [pc |-> "idle", stopped |-> FALSE, unsubscribed |-> {}, disconnected |-> {}]

AllUrls == [net1 |-> "wss://net1", net2 |-> "wss://net2", net3 |-> "wss://net3"]
SecondBlank == [AllUrls EXCEPT !.net2 = "  "]

ConnectActions ==
  \/ connectToMultipleChains
  \/ connectToChain
  \/ \E n \in NetworkNames : providerConnect(n)
  \/ \E n \in NetworkNames : subscribeToEvents(n)

PipelineActions ==
  \/ \E h \in Holders : getBlock(h)
  \/ \E h \in Holders : storeEventInDatabaseFind(h)
  \/ \E h \in Holders : storeEventInDatabaseCreate(h)
  \/ \E h \in Holders : dedupFind(h)

SweepActions ==
  \/ \E j \in DOMAIN sweeps : backfillLastBlocks(j)
  \/ \E j \in DOMAIN sweeps : storePreviousEventsForChain(j)
  \/ \E j \in DOMAIN sweeps : fetchDeposited(j)
  \/ \E j \in DOMAIN sweeps : fetchRedeemed(j)

TriggerActions ==
  \/ \E timer \in {"oneShot", "interval"} : performHourlyBackfill(timer)
  \/ \E b \in BlockCountInputs : triggerBackfill(b)
  \/ \E c \in ChainIdInputs, f \in FromBlockInputs : storePreviousEvents(c, f)

\* No pipeline run and no sweep is in flight.
Quiet ==
  /\ \A i \in DOMAIN live : live[i].pc = "done"
  /\ \A j \in DOMAIN sweeps : sweeps[j].pc = "done"

OnlyFirst == [AllUrls EXCEPT !.net2 = "  ", !.net3 = ""]
HeadsAt(b) == [n \in NetworkNames |-> b]

\* The whole service: connection pass, live subscriptions, timers and both
\* endpoints, on a fault-free environment.
Init == InitWith({AllUrls, SecondBlank}, {{}}, {HeadsAt(2500)}, MaxSweeps)

Next ==
  \/ ConnectActions
  \/ \E n \in NetworkNames, log \in ChainLogs : subscriptionData(n, log)
  \/ PipelineActions
  \/ SweepActions
  \/ TriggerActions

Spec == Init /\ [][Next]_vars

\* Start-up and the live path: the chain-id request and eth_subscribe can
\* fail, the second network's url may be blank.
InitConnect ==
  InitWith({AllUrls, SecondBlank, OnlyFirst}, {{"getChainId", "subscribe"}},
           {HeadsAt(1500)}, MaxSweeps)

NextConnect ==
  \/ ConnectActions
  \/ \E n \in NetworkNames, log \in ChainLogs : subscriptionData(n, log)
  \/ \E h \in Holders : getBlock(h)
  \/ \E h \in Holders : storeEventInDatabaseFind(h)
  \/ \E h \in Holders : storeEventInDatabaseCreate(h)

SpecConnect == InitConnect /\ [][NextConnect]_vars

\* Concurrent flows on one network: live deliveries and manual sweeps
\* interleave at every await.
InitGate == InitWith({OnlyFirst}, {{}}, {HeadsAt(1500)}, MaxFlows)

NextGate ==
  \/ ConnectActions
  \/ \E n \in NetworkNames, log \in ChainLogs : subscriptionData(n, log)
  \/ PipelineActions
  \/ \E j \in DOMAIN sweeps : backfillLastBlocks(j)
  \/ \E j \in DOMAIN sweeps : fetchDeposited(j)
  \/ \E j \in DOMAIN sweeps : fetchRedeemed(j)
  \/ \E b \in {<<"1">>} : triggerBackfill(b)

SpecGate == InitGate /\ [][NextGate]_vars

\* Flows that do not overlap: a delivery or a sweep starts only when every
\* earlier one has returned; the store's write can fail.
InitSeq == InitWith({SecondBlank}, {{"create"}}, {HeadsAt(1500)}, MaxFlows)

NextSeq ==
  \/ ConnectActions
  \/ \E n \in NetworkNames, log \in ChainLogs : Quiet /\ subscriptionData(n, log)
  \/ PipelineActions
  \/ SweepActions
  \/ \E b \in {<<"1">>} : Quiet /\ triggerBackfill(b)
  \/ \E f \in {<<"1", "0", "0", "0">>} : Quiet /\ storePreviousEvents(56, f)

SpecSeq == InitSeq /\ [][NextSeq]_vars

\* Backfill sweeps over growing chains, one at a time per budget, on a
\* fault-free environment.
InitSweep ==
  InitWith({SecondBlank}, {{}},
           {[n \in NetworkNames |-> IF n = "net1" THEN 999 ELSE 2500]}, MaxSweeps)

SweepBlockCounts == { <<"0">>, <<"1", "5", "0", "0">>, <<"5", "0", "0", "0", "1">>,
                      <<"a", "b", "c">> }

NextSweep ==
  \/ connectToMultipleChains
  \/ connectToChain
  \/ PipelineActions
  \/ SweepActions
  \/ \E timer \in {"oneShot", "interval"} : performHourlyBackfill(timer)
  \/ \E b \in SweepBlockCounts : triggerBackfill(b)
  \/ \E c \in {56, 999}, f \in FromBlockInputs : storePreviousEvents(c, f)
  \/ \E n \in {"net1"} : NewBlock(n)

SpecSweep == InitSweep /\ [][NextSweep]_vars

\* The scheduler's life: arming at the end of the connection pass, timer
\* firings, manual triggers, stop and shutdown; unsubscribe and disconnect
\* can fail.  The chains are short, so sweeps find no logs.
InitLife ==
  InitWith({SecondBlank}, {{"unsubscribe", "disconnect"}}, {HeadsAt(999)}, MaxSweeps)

NextLife ==
  \/ ConnectActions
  \/ ShutdownActions
  \/ \E timer \in {"oneShot", "interval"} : performHourlyBackfill(timer)
  \/ \E b \in {<<"1">>} : triggerBackfill(b)
  \/ \E j \in DOMAIN sweeps : backfillLastBlocks(j)
  \/ \E j \in DOMAIN sweeps : fetchDeposited(j)
  \/ \E j \in DOMAIN sweeps : fetchRedeemed(j)

SpecLife == InitLife /\ [][NextLife]_vars

\* Sweeps against an unreliable RPC provider: the current-block lookup and
\* the historical-log queries can fail.
InitFaulty ==
  InitWith({OnlyFirst}, {{"getBlockNumber", "getPastLogs"}}, {HeadsAt(2500)}, MaxSweeps)

NextFaulty ==
  \/ connectToMultipleChains
  \/ connectToChain
  \/ PipelineActions
  \/ SweepActions
  \/ \E timer \in {"oneShot", "interval"} : performHourlyBackfill(timer)
  \/ \E b \in {<<"1", "5", "0", "0">>, <<"0">>, <<"a", "b", "c">>} : triggerBackfill(b)
  \/ \E c \in {0, 1, 56, 999}, f \in FromBlockInputs : storePreviousEvents(c, f)

SpecFaulty == InitFaulty /\ [][NextFaulty]_vars

\* The live path against an unreliable store: deliveries of one network
\* overlap at their awaits, payloads can be malformed, and the existence
\* check and the write can fail.
InitLive ==
  InitWith({OnlyFirst}, {{"findByTxHash", "create"}}, {HeadsAt(2500)}, MaxFlows)

LiveLogs == {LogDepA, LogRedA, LogOther, LogTruncated, LogForeign, LogMixedCase}

NextLive ==
  \/ ConnectActions
  \/ \E n \in NetworkNames, log \in LiveLogs : subscriptionData(n, log)
  \/ \E h \in Holders : getBlock(h)
  \/ \E h \in Holders : storeEventInDatabaseFind(h)
  \/ \E h \in Holders : storeEventInDatabaseCreate(h)

SpecLive == InitLive /\ [][NextLive]_vars

\* Malformed logs: the provider delivers, and returns from range queries,
\* logs of tracked events that miss a required field, followed by a
\* well-formed one.
InitMalformed == InitWith({OnlyFirst}, {{}}, {HeadsAt(3500)}, MaxFlows)

MalformedLogs == {LogFewTopics, LogNoData, LogNoHash, LogNoBlock}

NextMalformed ==
  \/ ConnectActions
  \/ \E n \in NetworkNames, log \in MalformedLogs \cup {LogRedLate} : subscriptionData(n, log)
  \/ PipelineActions
  \/ \E j \in DOMAIN sweeps : backfillLastBlocks(j)
  \/ \E j \in DOMAIN sweeps : storePreviousEventsForChain(j)
  \/ \E j \in DOMAIN sweeps : fetchDeposited(j)
  \/ \E j \in DOMAIN sweeps : fetchRedeemed(j)
  \/ \E b \in {<<"1", "0", "0", "0">>} : Quiet /\ triggerBackfill(b)
  \/ \E f \in {<<"3", "0", "0", "0">>} : Quiet /\ storePreviousEvents(56, f)

SpecMalformed == InitMalformed /\ [][NextMalformed]_vars

\* Block lookups that fail: getBlock rejects or answers without a timestamp,
\* for delivered logs and for logs found by a manual sweep.
InitClock == InitWith({OnlyFirst}, {{"getBlock"}}, {HeadsAt(2500)}, MaxFlows)

NextClock ==
  \/ ConnectActions
  \/ \E n \in NetworkNames, log \in {LogDepA, LogRedA} : subscriptionData(n, log)
  \/ PipelineActions
  \/ \E j \in DOMAIN sweeps : backfillLastBlocks(j)
  \/ \E j \in DOMAIN sweeps : fetchDeposited(j)
  \/ \E j \in DOMAIN sweeps : fetchRedeemed(j)
  \/ \E b \in {<<"1", "5", "0", "0">>} : Quiet /\ triggerBackfill(b)

SpecClock == InitClock /\ [][NextClock]_vars

\* Reconciliation sweeps over ranges already ingested by a live delivery or
\* by an earlier manual sweep; getPastLogs calls can fail.
InitSkip == InitWith({OnlyFirst}, {{"getPastLogs"}}, {HeadsAt(2499)}, MaxFlows)

NextSkip ==
  \/ ConnectActions
  \/ \E n \in NetworkNames, log \in {LogDepA} : Quiet /\ subscriptionData(n, log)
  \/ PipelineActions
  \/ \E j \in DOMAIN sweeps : backfillLastBlocks(j)
  \/ \E j \in DOMAIN sweeps : fetchDeposited(j)
  \/ \E j \in DOMAIN sweeps : fetchRedeemed(j)
  \/ \E b \in {<<"9", "9", "9">>} : Quiet /\ triggerBackfill(b)

SpecSkip == InitSkip /\ [][NextSkip]_vars

\* Shutdown while work is in flight: the timers fire and their sweeps find
\* logs to store, and onModuleDestroy runs at any moment after the
\* connection pass.
InitDrain == InitWith({OnlyFirst}, {{}}, {HeadsAt(1500)}, MaxSweeps)

NextDrain ==
  \/ ConnectActions
  \/ PipelineActions
  \/ \E j \in DOMAIN sweeps : backfillLastBlocks(j)
  \/ \E j \in DOMAIN sweeps : fetchDeposited(j)
  \/ \E j \in DOMAIN sweeps : fetchRedeemed(j)
  \/ \E timer \in {"oneShot", "interval"} : performHourlyBackfill(timer)
  \/ ShutdownActions

SpecDrain == InitDrain /\ [][NextDrain]_vars

\* storePreviousEvents requests, one at a time, on a chain shorter and on a
\* chain longer than the default lookback, with the start block given in
\* the query, in the body, in both or in neither.
QueryFromBlocks == { <<>>, <<"0">>, <<"6", "0", "0">>, <<"8", "0", "0", "0", "0">>,
                     <<"8", "1", "0", "0", "0">> }
BodyFromBlocks == {0, 700}

InitPrevious == InitWith({OnlyFirst}, {{}}, {HeadsAt(500), HeadsAt(80500)}, MaxSweeps)

NextPrevious ==
  \/ connectToMultipleChains
  \/ connectToChain
  \/ \E f \in QueryFromBlocks, b \in BodyFromBlocks :
        Quiet /\ storePreviousEventsOf([chainId |-> 56, fromBlock |-> Num(b)], f)
  \/ \E j \in DOMAIN sweeps : storePreviousEventsForChain(j)
  \/ \E j \in DOMAIN sweeps : fetchDeposited(j)
  \/ \E j \in DOMAIN sweeps : fetchRedeemed(j)
  \/ \E h \in Holders : getBlock(h)
  \/ \E h \in Holders : storeEventInDatabaseFind(h)
  \/ \E h \in Holders : storeEventInDatabaseCreate(h)

SpecPrevious == InitPrevious /\ [][NextPrevious]_vars

\* Every operation that can touch the store or run beside one that does:
\* live deliveries, timer sweeps, both endpoints, one flow after another,
\* with stop and shutdown at any moment; the store's write can fail.
InitGrow == InitWith({OnlyFirst}, {{"create"}}, {HeadsAt(2500)}, MaxSweeps)

NextGrow ==
  \/ ConnectActions
  \/ \E n \in NetworkNames, log \in {LogDepA, LogRedA} : Quiet /\ subscriptionData(n, log)
  \/ PipelineActions
  \/ SweepActions
  \/ \E timer \in {"oneShot", "interval"} : Quiet /\ performHourlyBackfill(timer)
  \/ \E b \in {<<"1", "0", "0", "0">>} : Quiet /\ triggerBackfill(b)
  \/ \E f \in {<<"1", "5", "0", "0">>} : Quiet /\ storePreviousEvents(56, f)
  \/ ShutdownActions

SpecGrow == InitGrow /\ [][NextGrow]_vars

\* Backfills when some configured networks have no connection: every
\* network has a url, any chain-id request can fail, and requests and manual
\* sweeps follow one another.
InitUnconnected == InitWith({AllUrls}, {{"getChainId"}}, {HeadsAt(1500)}, MaxFlows)

NextUnconnected ==
  \/ connectToMultipleChains
  \/ connectToChain
  \/ PipelineActions
  \/ SweepActions
  \/ \E b \in {<<"1">>} : Quiet /\ triggerBackfill(b)
  \/ \E c \in {56, 137} : Quiet /\ storePreviousEvents(c, <<"1", "5", "0", "0">>)

SpecUnconnected == InitUnconnected /\ [][NextUnconnected]_vars

\* The connected flag over the life of the service: the connection pass
\* with all or one url set and chain-id requests that can fail, transport
\* signals of every kind, stop and shutdown with disconnects that can fail.
InitStatus ==
  InitWith({AllUrls, OnlyFirst}, {{"getChainId", "disconnect"}}, {HeadsAt(999)}, MaxSweeps)

NextStatus ==
  \/ ConnectActions
  \/ \E n \in NetworkNames : providerNotice(n)
  \/ ShutdownActions

SpecStatus == InitStatus /\ [][NextStatus]_vars

\* Arming of the scheduler: the connection pass over configurations with
\* all, some or no usable url, where any chain-id request can fail, followed
\* by firings of the two timers.
InitArm ==
  InitWith({AllUrls, SecondBlank, OnlyFirst}, {{"getChainId"}}, {HeadsAt(999)}, MaxSweeps)

NextArm ==
  \/ connectToMultipleChains
  \/ connectToChain
  \/ \E timer \in {"oneShot", "interval"} : performHourlyBackfill(timer)
  \/ \E j \in DOMAIN sweeps : backfillLastBlocks(j)
  \/ \E j \in DOMAIN sweeps : fetchDeposited(j)
  \/ \E j \in DOMAIN sweeps : fetchRedeemed(j)

SpecArm == InitArm /\ [][NextArm]_vars

\* The scheduler called in any order: after the connection pass it is armed
\* again, stopped while running and stopped while idle, and its timers fire
\* in between.  The chain is short, so the sweeps find no logs.
InitTimers == InitWith({OnlyFirst}, {{}}, {HeadsAt(999)}, MaxFlows)

NextTimers ==
  \/ connectToMultipleChains
  \/ connectToChain
  \/ startHourlyBackfill
  \/ stopHourlyBackfill
  \/ stopHourlyBackfillIdle
  \/ \E timer \in {"oneShot", "interval"} : performHourlyBackfill(timer)
  \/ \E j \in DOMAIN sweeps : backfillLastBlocks(j)
  \/ \E j \in DOMAIN sweeps : fetchDeposited(j)
  \/ \E j \in DOMAIN sweeps : fetchRedeemed(j)

SpecTimers == InitTimers /\ [][NextTimers]_vars

\* One backfill of either variant over the same block range, started on the
\* rows that earlier live deliveries have left and with no other flow running
\* beside it: a manual backfill of the last 1000 or 500 blocks, or a
\* store-previous-events request from block 1500 or 2000, with the head at
\* block 2500.  No call fails.
InitEquiv == InitWith({OnlyFirst}, {{}}, {HeadsAt(2500)}, MaxFlows)

NextEquiv ==
  \/ ConnectActions
  \/ \E l \in {LogDepB, LogRedA} :
       Quiet /\ sweeps = <<>> /\ subscriptionData("net1", l)
  \/ PipelineActions
  \/ SweepActions
  \/ \E b \in {<<"1", "0", "0", "0">>, <<"5", "0", "0">>} :
       Quiet /\ sweeps = <<>> /\ triggerBackfill(b)
  \/ \E f \in {<<"1", "5", "0", "0">>, <<"2", "0", "0", "0">>} :
       Quiet /\ sweeps = <<>> /\ storePreviousEvents(56, f)

SpecEquiv == InitEquiv /\ [][NextEquiv]_vars

\* Overlapping sweeps: timers fire and manual triggers arrive while earlier
\* sweeps are suspended at their RPC awaits.  Every awaited call of a sweep
\* is eventually answered (the event loop resumes each settled promise).
\* The chain is short, so the sweeps find no logs.
InitOverlap == InitWith({OnlyFirst}, {{}}, {HeadsAt(999)}, MaxFlows)

NextOverlap ==
  \/ connectToMultipleChains
  \/ connectToChain
  \/ \E j \in DOMAIN sweeps : backfillLastBlocks(j)
  \/ \E j \in DOMAIN sweeps : fetchDeposited(j)
  \/ \E j \in DOMAIN sweeps : fetchRedeemed(j)
  \/ \E timer \in {"oneShot", "interval"} : performHourlyBackfill(timer)
  \/ \E b \in {<<"1">>} : triggerBackfill(b)

\* The awaits of sweep j: its RPC calls and the store calls of its pipeline run.
SweepAwait(j) ==
  /\ j \in DOMAIN sweeps
  /\ \/ backfillLastBlocks(j)
     \/ fetchDeposited(j)
     \/ fetchRedeemed(j)
     \/ dedupFind([kind |-> "sweep", i |-> j])
     \/ getBlock([kind |-> "sweep", i |-> j])
     \/ storeEventInDatabaseFind([kind |-> "sweep", i |-> j])
     \/ storeEventInDatabaseCreate([kind |-> "sweep", i |-> j])

\* Sweep j is suspended at an await: the condition under which SweepAwait(j)
\* can happen.
Awaiting(j) ==
  /\ j \in DOMAIN sweeps
  /\ \/ sweeps[j].pc \in {"getBlockNumber", "queryDeposited", "queryRedeemed"}
     \/ sweeps[j].pc = "task"
        /\ sweeps[j].task.pc \in {"precheck", "getBlock", "find", "create"}

\* Weak fairness of SweepAwait(j), written with its enabling condition: a
\* sweep is not left suspended for ever at an await.
Answered(j) == []<>(~Awaiting(j)) \/ []<><<SweepAwait(j)>>_vars

SpecOverlap ==
  InitOverlap /\ [][NextOverlap]_vars /\ \A j \in 1..(MaxFlows + 1) : Answered(j)

\* Backfills of both variants over ranges of zero, one and several windows,
\* one request at a time; every await of a sweep is eventually answered.
RangeFromBlocks == { <<>>, <<"5", "0", "0">>, <<"1", "0", "0", "0">>,
                     <<"2", "5", "0", "0">>, <<"3", "0", "0", "0">> }
RangeBlockCounts == { <<"9", "9", "9">>, <<"1", "0", "0", "0">> }

InitRange == InitWith({OnlyFirst}, {{}}, {HeadsAt(500), HeadsAt(2500)}, MaxSweeps)

NextRange ==
  \/ connectToMultipleChains
  \/ connectToChain
  \/ \E f \in RangeFromBlocks : Quiet /\ storePreviousEvents(56, f)
  \/ \E b \in RangeBlockCounts : Quiet /\ triggerBackfill(b)
  \/ \E j \in DOMAIN sweeps : storePreviousEventsForChain(j)
  \/ \E j \in DOMAIN sweeps : backfillLastBlocks(j)
  \/ \E j \in DOMAIN sweeps : fetchDeposited(j)
  \/ \E j \in DOMAIN sweeps : fetchRedeemed(j)
  \/ PipelineActions

\* The awaits of a backfill of either variant, and weak fairness of them.
BackfillAwait(j) == SweepAwait(j) \/ (j \in DOMAIN sweeps /\ storePreviousEventsForChain(j))
Served(j) == []<>(~Awaiting(j)) \/ []<><<BackfillAwait(j)>>_vars

SpecRange ==
  InitRange /\ [][NextRange]_vars /\ \A j \in 1..(MaxSweeps + 1) : Served(j)

\* --------------------------------------------------------------- properties
DoneTasks == {t \in AllTasks : t.pc = "done"}
Skipped(t) == t.outcome \in {"duplicate", "precheck_duplicate"}
StoreCallFailed(t) == t.outcome \in {"find_failed", "create_failed", "precheck_failed"}
ReturnedNormally(t) == t.outcome = "stored" \/ Skipped(t)
RowsWith(rows, hash) == {k \in DOMAIN rows : rows[k].transaction_hash = hash}
TrackedSignatures == {DepositedSignature, RedeemedSignature}

\* C1 (idempotence): when runs of the pipeline do not overlap and the store's
\* calls succeed, a run on a valid tracked log that finishes after an earlier
\* run on the same log has returned is skipped as a duplicate without a create
\* call, and exactly one stored row carries the log's transaction hash,
\* whichever of the three paths performs each run.
C1_Idempotent ==
  [][\A t2 \in DoneTasks' \ DoneTasks : \A t1 \in DoneTasks :
       (t1.log = t2.log /\ ReturnedNormally(t1) /\ ~StoreCallFailed(t2))
         => /\ Skipped(t2)
            /\ t2.creates = 0
            /\ Cardinality(RowsWith(store', t2.log.transactionHash)) = 1]_vars

C1_Witness ==
  \E t1, t2 \in DoneTasks :
     /\ t1.log = LogDepA /\ t2.log = LogDepA
     /\ t1.path = "live" /\ t1.outcome = "stored"
     /\ t2.path = "previous" /\ t2.outcome = "duplicate" /\ t2.creates = 0
     /\ Cardinality(RowsWith(store, "0xh1")) = 1

\* C2 (race window): the existence check and the write are separate awaits,
\* so two overlapping flows can both pass the check for one transaction hash
\* and both write: whenever two runs have both stored a log with the same
\* hash, each has inserted a row of its own and the store holds two rows with
\* that hash.
C2_BothRunsWrite ==
  \A t1, t2 \in DoneTasks :
     (t1 # t2 /\ t1.outcome = "stored" /\ t2.outcome = "stored"
        /\ t1.log.transactionHash = t2.log.transactionHash)
       => /\ t1.rec # t2.rec
          /\ {t1.rec, t2.rec} \subseteq RowsWith(store, t1.log.transactionHash)

C2_Witness ==
  \E t1, t2 \in DoneTasks :
     /\ t1.path = "live" /\ t2.path = "dedup"
     /\ t1.log = LogDepA /\ t2.log = LogDepA
     /\ t1.outcome = "stored" /\ t2.outcome = "stored"
     /\ t1.finds = 1 /\ t2.finds = 2
     /\ Cardinality(RowsWith(store, "0xh1")) = 2

\* The run that wrote row k, and the contract that run was processing (the
\* row itself has no contract column).
WriterOf(k) == CHOOSE t \in AllTasks : t.rec = k
SameScope(t, k) ==
  /\ store[k].network = t.chainName
  /\ WriterOf(k).contract.address = t.contract.address

\* C3 as the specification states it: the transaction hash is unique among
\* the stored rows of one network and contract, and a log is skipped only
\* when a stored row with its hash belongs to the log's own network and
\* contract (a row of another network or contract does not suppress the write).
C3_ScopedToNetworkAndContract ==
  /\ \A k1, k2 \in DOMAIN store :
        (k1 # k2 /\ store[k1].transaction_hash = store[k2].transaction_hash)
          => ~(/\ store[k1].network = store[k2].network
               /\ WriterOf(k1).contract.address = WriterOf(k2).contract.address)
  /\ \A t \in DoneTasks :
        Skipped(t) => \E k \in RowsWith(store, t.log.transactionHash) : SameScope(t, k)

\* C3 (amended): de-duplication is keyed on the transaction hash alone.  When
\* runs do not overlap, a run is skipped exactly when some stored row carries
\* its log's hash, whatever the network or contract of that row, so the hash
\* is unique among all stored rows and a row written for another network or
\* contract does suppress the write.
C3_KeyedOnHashAlone ==
  /\ \A k1, k2 \in DOMAIN store :
        store[k1].transaction_hash = store[k2].transaction_hash => k1 = k2
  /\ \A t \in DoneTasks :
        /\ Skipped(t) => RowsWith(store, t.log.transactionHash) # {}
        /\ t.outcome = "stored" => RowsWith(store, t.log.transactionHash) = {t.rec}

C3_Witness ==
  \E t0, t1, t2 \in DoneTasks :
     /\ t0.log = LogDepA /\ t0.outcome = "stored"
     /\ RowsWith(store, "0xh1") = {t0.rec}
     /\ t1.log = LogDepB /\ Skipped(t1) /\ t1.chainName = "net1"
     /\ t1.contract.address # t0.contract.address
     /\ t2.log = LogRedD /\ Skipped(t2) /\ t2.chainName = "net3"

\* C4 (signature partition on the live path): a delivered log whose first
\* topic is neither tracked signature is dropped at once: no decode is
\* attempted, no findByTxHash or create call is made for it, and no stored row
\* comes from it.
C4_UnknownSignatureDropped ==
  \A i \in DOMAIN live :
     (live[i].outcome \notin {"unknown_contract", "no_connection"}
        /\ live[i].log.topics[1] \notin TrackedSignatures)
       => /\ live[i].pc = "done"
          /\ ~live[i].decoded
          /\ live[i].finds = 0 /\ live[i].creates = 0 /\ live[i].rec = 0
          /\ RowsWith(store, live[i].log.transactionHash) = {}

C4_Witness ==
  \E i \in DOMAIN live :
     /\ live[i].log = LogOther
     /\ live[i].contract.address = "0xAA"
     /\ live[i].outcome = "unknown_signature"
     /\ store = <<>>

\* The decimal strings of the payload words that occur in the logs above.
DecimalOf(n) ==
  CASE n = 0 -> "0" [] n = 1 -> "1" [] n = 3 -> "3" [] n = 7 -> "7"
    [] n = 12 -> "12" [] n = 40 -> "40" [] n = 500 -> "500"

\* C5 (field mirroring): a stored row written from a Deposited log with data
\* words (A, B, fee) has amount_deposited = A, tokens_minted = B,
\* tokens_redeemed = 0 and amount_returned = 0; one written from a Redeemed log
\* with data words (A, B, fee) has tokens_redeemed = A, amount_returned = B,
\* tokens_minted = 0 and amount_deposited = 0; in both the fee is the third
\* word and topics 1..3 give the wallet, asset-token and stablecoin addresses.
C5_FieldMirroring ==
  \A k \in DOMAIN store :
     LET r == store[k]
         log == WriterOf(k).log
         A == DecimalOf(log.data[1])
         B == DecimalOf(log.data[2])
     IN /\ log.topics[1] \in TrackedSignatures
        /\ r.fee = DecimalOf(log.data[3])
        /\ r.wallet_address = AddressOfTopic(log.topics[2])
        /\ r.asset_token_address = AddressOfTopic(log.topics[3])
        /\ r.stablecoin_address = AddressOfTopic(log.topics[4])
        /\ log.topics[1] = DepositedSignature
             => /\ r.event_type = "deposited"
                /\ r.amount_deposited = A /\ r.tokens_minted = B
                /\ r.tokens_redeemed = "0" /\ r.amount_returned = "0"
        /\ log.topics[1] = RedeemedSignature
             => /\ r.event_type = "redeemed"
                /\ r.tokens_redeemed = A /\ r.amount_returned = B
                /\ r.tokens_minted = "0" /\ r.amount_deposited = "0"

C5_Witness ==
  \E k1, k2 \in DOMAIN store :
     /\ WriterOf(k1).log = LogDepA
     /\ store[k1].amount_deposited = "500" /\ store[k1].tokens_minted = "12"
     /\ store[k1].fee = "3"
     /\ WriterOf(k2).log = LogRedA
     /\ store[k2].tokens_redeemed = "12" /\ store[k2].amount_returned = "500"
     /\ store[k2].fee = "3" /\ store[k2].wallet_address = "0xU2"

\* The scans of a sweep: one per block-number read and contract of that
\* network, with the windows queried for it so far and whether its window
\* loop has run to its end.
IndexOfNet(s, net) == CHOOSE i \in DOMAIN s.configs : s.configs[i].name = net
Scans ==
  { x \in [sweep : DOMAIN sweeps, read : DOMAIN Networks,
           contract : DOMAIN ContractsOf("net1")] :
      /\ x.read \in DOMAIN sweeps[x.sweep].blockReads
      /\ LET s == sweeps[x.sweep]
             ni == IndexOfNet(s, s.blockReads[x.read].net)
         IN x.contract \in DOMAIN s.configs[ni].contracts }
ReadOf(x) == sweeps[x.sweep].blockReads[x.read]
WindowsOf(x) ==
  LET s == sweeps[x.sweep]
      ni == IndexOfNet(s, ReadOf(x).net)
  IN SelectSeq(s.windows,
               LAMBDA w : /\ w.net = ReadOf(x).net
                          /\ w.contract = s.configs[ni].contracts[x.contract].address)
Complete(x) ==
  LET s == sweeps[x.sweep]
      ni == IndexOfNet(s, ReadOf(x).net)
  IN \/ s.pc = "done"
     \/ s.netIdx > ni
     \/ s.netIdx = ni /\ s.ctrIdx > x.contract
ProbeBlocks == {0, 1, 998, 999, 1000, 1001, 1499, 1500, 1999, 2000, 2001, 2499, 2500, 2501}

\* C6 (window coverage): a backfill over [from, to] with 0 <= from <= to and no
\* failing query issues consecutive closed windows of at most batchSize
\* blocks, the first starting at from and the last ending at to, so that each
\* block of [from, to] lies in exactly one window and no other block in any.
C6_WindowsPartitionRange ==
  \A x \in Scans :
     LET from == ReadOf(x).from
         to == ReadOf(x).value
         W == WindowsOf(x)
     IN (~from.nan /\ 0 <= from.val /\ from.val <= to)
          => /\ \A i \in DOMAIN W :
                  /\ W[i].from <= W[i].to
                  /\ W[i].to - W[i].from + 1 <= 1000
                  /\ W[i].from = IF i = 1 THEN from.val ELSE W[i - 1].to + 1
                  /\ W[i].to <= to
             /\ Complete(x)
                  => /\ W # <<>> /\ W[Len(W)].to = to
                     /\ \A b \in ProbeBlocks :
                          Cardinality({i \in DOMAIN W : W[i].from <= b /\ b <= W[i].to})
                            = IF from.val <= b /\ b <= to THEN 1 ELSE 0

C6_Witness ==
  \E x \in Scans :
     /\ Complete(x)
     /\ ReadOf(x).from = Num(0) /\ ReadOf(x).value = 2500
     /\ Len(WindowsOf(x)) = 3
     /\ WindowsOf(x)[3].from = 2000 /\ WindowsOf(x)[3].to = 2500

\* C7 as the specification states it: a backfill over [1000, 2500] issues
\* exactly three window queries.
C7_ThreeWindowQueries ==
  \A x \in Scans :
     (Complete(x) /\ ReadOf(x).from = Num(1000) /\ ReadOf(x).value = 2500)
       => Len(WindowsOf(x)) = 3

\* C7 (amended): a backfill over [1000, 2500] with batchSize 1000 queries
\* exactly two windows, [1000, 1999] and [2000, 2500], each with one
\* getPastLogs call per tracked event kind.
C7_TwoWindowQueries ==
  \A x \in Scans :
     (Complete(x) /\ ReadOf(x).from = Num(1000) /\ ReadOf(x).value = 2500)
       => LET W == WindowsOf(x)
          IN /\ Len(W) = 2
             /\ W[1].from = 1000 /\ W[1].to = 1999 /\ W[1].queries = 2
             /\ W[2].from = 2000 /\ W[2].to = 2500 /\ W[2].queries = 2

C7_Witness ==
  \E x \in Scans :
     /\ Complete(x) /\ ReadOf(x).from = Num(1000) /\ ReadOf(x).value = 2500
     /\ Len(WindowsOf(x)) = 2

\* C8 (partial-failure isolation): with three networks configured of which
\* the second fails to connect, once connectToMultipleChains has returned the
\* first and the third network each have a connection and a subscription in
\* the subscription map, and the second has neither.
C8_SubscribedOnReturn ==
  (boot.pc = "done" /\ web3Connections = {"net1", "net3"})
    => /\ subscriptions = {"net1", "net3"}
       /\ openSubs["net1"] > 0 /\ openSubs["net3"] > 0
       /\ openSubs["net2"] = 0

\* The calls a sweep has issued against the RPC provider.
RpcIssued(s) == s.pc = "getBlockNumber" \/ s.blockReads # <<>> \/ s.windows # <<>>

\* C9 (reconciliation bounds): a manual trigger whose lookback is outside
\* 1..50000 is rejected before any RPC or store call is issued, and every
\* lookback in 1..50000 is accepted.
C9_LookbackBounds ==
  \A i \in DOMAIN requests :
     LET r == requests[i]
         inRange == ~r.number.nan /\ 1 <= r.number.val /\ r.number.val <= 50000
     IN r.endpoint = "trigger-backfill"
          => /\ inRange => r.status = "accepted"
             /\ ~inRange => /\ r.status = "rejected"
                             /\ r.sweep = 0
                             /\ \A j \in DOMAIN sweeps :
                                   sweeps[j].blockCount = r.number => ~RpcIssued(sweeps[j])

\* C10 (reconciliation range): a reconciliation sweep with lookback n reads
\* each connected network's current block once, and for each contract of the
\* network scans [max(0, currentBlock - n), currentBlock]; n is 10000 for the
\* scheduled sweep.
C10_TrailingRange ==
  \A j \in DOMAIN sweeps :
     LET s == sweeps[j]
         n == s.blockCount
     IN (s.kind \in {"hourly", "manual"} /\ ~n.nan)
          => /\ s.kind = "hourly" => n.val = 10000
             /\ \A i1, i2 \in DOMAIN s.blockReads :
                   s.blockReads[i1].net = s.blockReads[i2].net => i1 = i2
             /\ \A x \in {y \in Scans : y.sweep = j} :
                   LET cur == ReadOf(x).value
                       lo == IF cur - n.val > 0 THEN cur - n.val ELSE 0
                       W == WindowsOf(x)
                   IN /\ ReadOf(x).from = Num(lo)
                      /\ \A i \in DOMAIN W : lo <= W[i].from /\ W[i].to <= cur
                      /\ W # <<>> => W[1].from = lo
                      /\ Complete(x) => (W # <<>> /\ W[Len(W)].to = cur)

C10_Witness ==
  \E x \in Scans :
     /\ sweeps[x.sweep].kind = "manual"
     /\ sweeps[x.sweep].blockCount = Num(1500)
     /\ ReadOf(x).value = 999 /\ head[ReadOf(x).net] = 2500
     /\ Complete(x)
     /\ WindowsOf(x) # <<>>
     /\ WindowsOf(x)[1].from = 0 /\ WindowsOf(x)[Len(WindowsOf(x))].to = 999

\* C11 (status reflects arm state): isRunning is false in every state before
\* the scheduler is armed and after it is stopped, and true in every state in
\* which it is armed, whether or not a sweep is executing; a manual trigger
\* therefore never changes it.
C11_StatusIsArmState ==
  getBackfillStatus.isRunning = (boot.pc = "done" /\ ~shutdown.stopped)

C11_Witness ==
  /\ shutdown.stopped
  /\ ~getBackfillStatus.isRunning
  /\ \E j \in DOMAIN sweeps : sweeps[j].kind = "manual" /\ sweeps[j].pc # "done"

\* C12 (explicit stop cancels both timers): once stopHourlyBackfill has
\* returned, on its own or in a shutdown, no scheduled sweep starts any more.
C12_NoSweepAfterStop ==
  [][shutdown.stopped
       => \A j \in DOMAIN sweeps' \ DOMAIN sweeps : sweeps'[j].kind # "hourly"]_vars

\* C18 (shutdown): when onModuleDestroy returns, both timers are stopped,
\* unsubscribe was attempted on every registered subscription and disconnect
\* on every held connection whatever failed before, both maps are empty,
\* isConnected() is false and isRunning is false.
C18_ShutdownLeavesNothing ==
  [][(shutdown.pc # "done" /\ shutdown'.pc = "done")
       => /\ oneShot' = 0 /\ ~backfillInterval'
          /\ subscriptions \subseteq shutdown'.unsubscribed
          /\ web3Connections \subseteq shutdown'.disconnected
          /\ subscriptions' = {} /\ web3Connections' = {}
          /\ ~isConnected'
          /\ ~getBackfillStatus'.isRunning]_vars

\* C13 (backfill window isolation): when a window's query fails during the
\* backfill of a contract, the later windows of that contract are still
\* queried, up to the end of the range, and so are the remaining contracts of
\* the network.
C13_FailedWindowDoesNotAbort ==
  \A x \in Scans :
     LET from == ReadOf(x).from
         to == ReadOf(x).value
         W == WindowsOf(x)
     IN (~from.nan /\ 0 <= from.val /\ from.val <= to /\ Complete(x))
          => W # <<>> /\ W[Len(W)].to = to

\* C15 (triggerManualBackfill re-raises): when a step of a manually
\* triggered sweep has failed, the trigger-backfill endpoint reports a failure
\* rather than success.
C15_ManualFailureReported ==
  \A i \in DOMAIN requests :
     LET r == requests[i]
     IN (r.endpoint = "trigger-backfill" /\ r.status = "accepted"
           /\ sweeps[r.sweep].pc = "done" /\ sweeps[r.sweep].errors # <<>>)
          => triggerBackfillResponse(r) = "failure"

\* The contract a scan is about.
ContractOfScan(x) ==
  LET s == sweeps[x.sweep]
  IN s.configs[IndexOfNet(s, ReadOf(x).net)].contracts[x.contract]

\* C16 (reconciliation catches missed events): when a reconciliation sweep
\* whose queries, decodes and store calls all succeed has finished a contract,
\* every tracked log of that contract at a block b with
\* max(0, currentBlock - lookback) <= b <= currentBlock has a stored row with
\* its transaction hash, whether or not the live path had stored it.
C16_MissedEventsCaught ==
  \A x \in Scans : \A log \in ChainLogs :
     (/\ sweeps[x.sweep].kind \in {"hourly", "manual"}
      /\ Complete(x)
      /\ ~ReadOf(x).from.nan
      /\ log.topics[1] \in TrackedSignatures
      /\ log.net = ReadOf(x).net
      /\ toLowerCase(log.address) = toLowerCase(ContractOfScan(x).address)
      /\ ReadOf(x).from.val <= log.blockNumber
      /\ log.blockNumber <= ReadOf(x).value)
       => RowsWith(store, log.transactionHash) # {}

C16_Witness ==
  \E x \in Scans :
     /\ sweeps[x.sweep].kind = "hourly" /\ Complete(x)
     /\ ReadOf(x).net = "net1" /\ ContractOfScan(x).address = "0xAA"
     /\ ReadOf(x).from = Num(0) /\ ReadOf(x).value = 2500
     /\ \E k \in RowsWith(store, "0xh2") : WriterOf(k).path = "dedup"
     /\ \E k \in RowsWith(store, "0xh1") : WriterOf(k).path = "dedup"

\* A delivered log the pipeline can decode.
LiveValid(t) ==
  /\ t.contract # NoContract
  /\ ValidLog(t.log)
  /\ t.log.topics[1] \in TrackedSignatures
  /\ Decodable(InputsOf(IF t.log.topics[1] = DepositedSignature
                        THEN "Deposited" ELSE "Redeemed"), t.log.data)

LiveFailed(t) == StoreCallFailed(t) \/ t.outcome \in {"decode_error", "invalid"}

\* C14 (per-event isolation on the live path): a delivered log whose decode,
\* existence check or write fails ends dropped, with no row, at most one
\* findByTxHash and one create call, and is never resumed; no step of a
\* delivery changes the open subscriptions or the subscription map; every
\* valid delivered log is decoded, and unless one of its own store calls
\* fails it ends stored (or skipped as a duplicate) with a row of its hash.
C14_LiveFailureIsolated ==
  [][/\ live' # live => (openSubs' = openSubs /\ subscriptions' = subscriptions)
     /\ \A i \in DOMAIN live' :
          LET t == live'[i]
          IN /\ t.finds <= 1 /\ t.creates <= 1
             /\ (t.pc = "done" /\ LiveFailed(t)) => t.rec = 0
             /\ (i \in DOMAIN live /\ live[i].pc = "done") => t = live[i]
             /\ LiveValid(t) => t.decoded
             /\ (LiveValid(t) /\ t.pc = "done" /\ ~StoreCallFailed(t))
                  => /\ t.outcome \in {"stored", "duplicate"}
                     /\ RowsWith(store', t.log.transactionHash) # {}
                     /\ t.outcome = "stored" => store'[t.rec] = dbEvent(t)]_vars

C14_Witness ==
  /\ Len(live) >= 2
  /\ live[1].log = LogDepA /\ live[1].outcome = "create_failed"
  /\ live[2].log = LogDepA /\ live[2].outcome = "stored"
  /\ openSubs["net1"] = 1 /\ "net1" \in subscriptions

\* C17 (arrival-order processing): for deliveries L1 before L2 of one
\* subscription, L1's decode, existence check and write have completed when
\* L2's processing begins, and two deliveries with the same transaction hash
\* never both pass the existence check.
C17_ArrivalOrder ==
  \A i, j \in DOMAIN live :
     (i < j /\ live[i].chainName = live[j].chainName)
       => /\ live[i].pc = "done"
          /\ (live[i].log.transactionHash = live[j].log.transactionHash)
               => ~(live[i].creates > 0 /\ live[j].creates > 0)

\* C19 (one live subscription per network): in every state each network has
\* at most one open log subscription, and it has one exactly when the
\* subscription map holds an entry for it.
C19_OneSubscriptionPerNetwork ==
  \A n \in NetworkNames :
     /\ openSubs[n] <= 1
     /\ (openSubs[n] = 1) <=> (n \in subscriptions)

\* C20 (transport observers only log): a firing of a transport signal leaves
\* the connection map, the subscription map, the scheduler state and the
\* store unchanged and starts no connect or subscribe call.
C20_ObserversOnlyLog ==
  [][nSignals' # nSignals
       => /\ web3Connections' = web3Connections
          /\ subscriptions' = subscriptions
          /\ backfillInterval' = backfillInterval /\ oneShot' = oneShot
          /\ store' = store
          /\ boot' = boot
          /\ subscribing' = subscribing]_vars

\* A sweep that has returned after scanning every contract of every
\* connected network up to the block it read.
RanToCompletion(j) ==
  /\ sweeps[j].pc = "done"
  /\ \A n \in web3Connections :
       \E x \in Scans : x.sweep = j /\ ReadOf(x).net = n
  /\ \A x \in Scans :
       x.sweep = j => /\ WindowsOf(x) # <<>>
                      /\ WindowsOf(x)[Len(WindowsOf(x))].to = ReadOf(x).value
                      /\ \A k \in DOMAIN WindowsOf(x) : WindowsOf(x)[k].queries = 2

\* C21 (sweeps are not mutually exclusive): a timer firing or a manual
\* trigger while sweeps are in flight adds a sweep and leaves the sweeps
\* already running as they are; every step advances one sweep only; a sweep
\* in flight is always suspended at one of its own awaits, whatever the
\* others do; and every
\* sweep started eventually returns having scanned its whole range.
C21_SweepsRunConcurrently ==
  /\ [][/\ \A j \in DOMAIN sweeps :
             /\ j \in DOMAIN sweeps'
             /\ Len(sweeps') > Len(sweeps) => sweeps'[j] = sweeps[j]
        /\ Cardinality({j \in DOMAIN sweeps : sweeps'[j] # sweeps[j]}) <= 1]_vars
  /\ [](\A j \in DOMAIN sweeps : sweeps[j].pc # "done" => Awaiting(j))
  /\ \A j \in 1..(MaxFlows + 1) :
       (Len(sweeps) >= j) ~> (Len(sweeps) >= j /\ RanToCompletion(j))

C21_Witness ==
  /\ Len(sweeps) >= 2
  /\ sweeps[1].kind = "hourly" /\ sweeps[2].kind = "manual"
  /\ sweeps[1].pc = "queryRedeemed" /\ Len(sweeps[1].windows) = 2
  /\ sweeps[2].pc = "queryDeposited" /\ Len(sweeps[2].windows) = 1

\* A pipeline run on a log of a tracked event that misses a required field.
Malformed(t) ==
  /\ t.pc # "none"
  /\ t.log.topics[1] \in TrackedSignatures
  /\ \/ Len(t.log.topics) < 4
     \/ t.log.data = <<>>
     \/ t.log.blockNumber = 0
     \/ t.log.transactionHash = ""

\* C22 as stated (decoder validation): a tracked log with fewer than 4
\* topics, or without data, block number or transaction hash, is never
\* decoded and no store call at all (findByTxHash or create) is issued for it.
C22_NoStoreCallForMalformed ==
  \A t \in AllTasks :
     Malformed(t) => ~t.decoded /\ t.finds = 0 /\ t.creates = 0 /\ t.rec = 0

\* C22 as the code has it: such a log is never decoded, no create is issued
\* for it and no row is written for it; on the live path and in
\* store-previous-events no store call at all is issued, while a
\* reconciliation sweep has issued its one existence check before the
\* validation; the run ends as rejected and the flow goes on.
C22_MalformedRejected ==
  /\ \A t \in AllTasks :
       Malformed(t)
         => /\ ~t.decoded /\ t.creates = 0 /\ t.rec = 0
            /\ t.finds <= (IF t.path = "dedup" THEN 1 ELSE 0)
            /\ t.pc \in {"precheck", "done"}
            /\ (t.pc = "done") => t.outcome \in {"invalid", "precheck_duplicate"}
  /\ \A k \in DOMAIN store :
       /\ store[k].transaction_hash \notin {l.transactionHash : l \in MalformedLogs}
       /\ \E t \in AllTasks : t.rec = k /\ ~Malformed(t)

C22_Witness ==
  /\ \E t \in AllTasks : t.path = "live" /\ t.log = LogNoBlock /\ t.outcome = "invalid"
  /\ \E j \in DOMAIN sweeps :
       /\ sweeps[j].kind = "manual" /\ sweeps[j].pc = "done"
       /\ \E a, b, c, d \in DOMAIN sweeps[j].doneTasks :
            /\ a < d /\ b < d /\ c < d
            /\ sweeps[j].doneTasks[a].log = LogFewTopics
            /\ sweeps[j].doneTasks[b].log = LogNoData
            /\ sweeps[j].doneTasks[c].log = LogNoHash
            /\ sweeps[j].doneTasks[a].outcome = "invalid"
            /\ sweeps[j].doneTasks[a].finds = 1
            /\ sweeps[j].doneTasks[d].log = LogRedLate
            /\ sweeps[j].doneTasks[d].outcome = "stored"

\* The row a run writes, but for its timestamp column.
RowButTimestamp(row) == [f \in DOMAIN row \ {"timestamp"} |-> row[f]]

\* C23 (timestamp-lookup failure does not abort ingestion): whatever the
\* block lookup answers, the run goes on to the existence check with its
\* decoded fields untouched; a run that fell back to the wall clock and was
\* stored has written the row a successful lookup would have written, but for
\* the timestamp; and no run ever ends because of the lookup.
C23_TimestampFallback ==
  /\ [][\A h \in Holders :
          (TaskOf(h).pc = "getBlock" /\ TaskOf(h)' # TaskOf(h))
            => /\ TaskOf(h)'.pc = "find"
               /\ TaskOf(h)'.timestamp \in {"block", "clock"}
               /\ TaskOf(h)'.eventData = TaskOf(h).eventData
               /\ TaskOf(h)'.log = TaskOf(h).log]_vars
  /\ [](\A t \in AllTasks :
          /\ (t.pc = "done" /\ t.decoded) => t.outcome \in {"stored", "duplicate"}
          /\ (t.outcome = "stored" /\ t.timestamp = "clock")
               => /\ RowButTimestamp(store[t.rec])
                       = RowButTimestamp(dbEvent([t EXCEPT !.timestamp = "block"]))
                  /\ store[t.rec].transaction_hash = t.log.transactionHash
                  /\ store[t.rec].timestamp = "clock")

C23_Witness ==
  /\ \E t \in AllTasks :
       /\ t.path = "live" /\ t.timestamp = "clock" /\ t.outcome = "stored"
       /\ store[t.rec].transaction_hash = t.log.transactionHash
  /\ \E t \in AllTasks :
       /\ t.path = "dedup" /\ t.timestamp = "clock" /\ t.outcome = "stored"

\* The configured contract of net1 that owns an address, "" when none does.
OwnerOnNet1(address) ==
  CASE address \in {"0xaa", "0xAa", "0xAA"} -> "VaultA"
    [] address \in {"0xbb", "0xBB"} -> "VaultB"
    [] OTHER -> ""

\* C24 (address resolution): a delivered log whose address is not a
\* configured contract address of its network is dropped with no decode and
\* no store call; a log whose address equals a configured one up to letter
\* case is attributed to that contract and goes on to the signature dispatch.
C24_AddressResolution ==
  \A i \in DOMAIN live :
     LET t == live[i]
     IN (t.chainName = "net1")
          => /\ (OwnerOnNet1(t.log.address) = "")
                  => /\ t.pc = "done" /\ t.outcome = "unknown_contract"
                     /\ t.contract = NoContract
                     /\ ~t.decoded /\ t.finds = 0 /\ t.creates = 0 /\ t.rec = 0
             /\ (OwnerOnNet1(t.log.address) # "")
                  => /\ t.contract.name = OwnerOnNet1(t.log.address)
                     /\ t.outcome # "unknown_contract"
                     /\ LiveValid(t) => t.decoded

C24_Witness ==
  /\ \E i \in DOMAIN live :
       /\ live[i].log = LogForeign /\ live[i].outcome = "unknown_contract"
  /\ \E i \in DOMAIN live :
       /\ live[i].log = LogMixedCase /\ live[i].outcome = "stored"
       /\ live[i].contract.name = "VaultA"
       /\ store[live[i].rec].transaction_hash = "0xh10"

\* C25 (connection map under partial success): once the connect pass has
\* returned, every configured network has been attempted, in order; an
\* attempt ended as blank exactly for the blank or missing urls; and
\* getWeb3Instance(name) yields a connection exactly for the networks whose
\* url was not blank and whose chain-id request succeeded.
C25_ConnectionMap ==
  boot.pc = "done"
    => /\ Len(boot.attempts) = Len(config)
       /\ \A i \in DOMAIN config :
            /\ boot.attempts[i].name = config[i].name
            /\ (boot.attempts[i].result = "blank") <=> (config[i].wssUrl \in {"", "  "})
            /\ getWeb3Instance(config[i].name) <=> (boot.attempts[i].result = "connected")

C25_Witness ==
  /\ boot.pc = "done"
  /\ config[2].wssUrl = "  "
  /\ boot.attempts = << [name |-> "net1", result |-> "failed"],
                        [name |-> "net2", result |-> "blank"],
                        [name |-> "net3", result |-> "connected"] >>
  /\ ~getWeb3Instance("net1") /\ ~getWeb3Instance("net2") /\ getWeb3Instance("net3")

\* The answer of the endpoint a request went to.
ResponseTo(r) ==
  IF r.endpoint = "trigger-backfill" THEN triggerBackfillResponse(r)
  ELSE storePreviousEventsResponse(r)

\* C26 (failure behaviour at the API boundary): a request with a missing or
\* unknown chain id, a chain whose url is blank, or a block count outside
\* 1..50000 is answered with a bad-request error and reaches no service call;
\* every other request is accepted, and is answered success = false when its
\* run met a failure and success = true otherwise.
C26_ApiBoundary ==
  \A i \in DOMAIN requests :
     LET r == requests[i]
         invalid ==
           IF r.endpoint = "trigger-backfill"
           THEN ~(~r.number.nan /\ 1 <= r.number.val /\ r.number.val <= 50000)
           ELSE \/ r.chainId = 0
                \/ \A k \in DOMAIN config : config[k].chainId # r.chainId
                \/ \E k \in DOMAIN config :
                      config[k].chainId = r.chainId /\ config[k].wssUrl \in {"", "  "}
     IN /\ invalid => (r.status = "rejected" /\ r.sweep = 0 /\ ResponseTo(r) = "BadRequest")
        /\ ~invalid
             => /\ r.status = "accepted"
                /\ sweeps[r.sweep].pc = "done"
                     => ResponseTo(r) = (IF sweeps[r.sweep].errors = <<>>
                                         THEN "success" ELSE "failure")

\* Trace entries about the same contract of the same network.
SameContract(a, b) == a.net = b.net /\ a.address = b.address
SameWindow(a, b) == SameContract(a, b) /\ a.fromBlock = b.fromBlock /\ a.toBlock = b.toBlock
IsQuery(e, topic) == e.op = "query" /\ e.topic = topic

\* The tracked logs on chain that fall into the window of query q.
LogsInWindow(q) ==
  {l \in ChainLogs : /\ l.net = q.net
                     /\ toLowerCase(l.address) = toLowerCase(q.address)
                     /\ l.topics[1] \in TrackedSignatures
                     /\ q.fromBlock <= l.blockNumber /\ l.blockNumber <= q.toBlock}

\* The trace of one reconciliation sweep is sequential and ordered.
OrderedTrace(s) ==
  LET T == s.trace
      D == SelectSeq(T, LAMBDA e : IsQuery(e, DepositedSignature))
      \* the Deposited query that opened the window entry i belongs to
      Openings == {q \in DOMAIN T : IsQuery(T[q], DepositedSignature)}
      Open == [i \in DOMAIN T |->
                 LET before == {q \in Openings : q <= i}
                 IN CHOOSE q \in before : \A r \in before : r <= q]
      Opening(i) == Open[i]
  IN /\ s.inFlight \in {0, 1}
     /\ (s.inFlight = 1) <=> (s.pc \in {"queryDeposited", "queryRedeemed"})
     /\ T # <<>> => IsQuery(T[1], DepositedSignature)
     /\ \A i \in DOMAIN T :
          \* two queries per window, Deposited then Redeemed, same filter
          /\ IsQuery(T[i], DepositedSignature)
               => /\ T[i].address = ContractsOf(T[i].net)[1].address
                       \/ T[i].address = ContractsOf(T[i].net)[Len(ContractsOf(T[i].net))].address
                  /\ (i < Len(T)) => (IsQuery(T[i + 1], RedeemedSignature)
                                        /\ SameWindow(T[i], T[i + 1]))
                  /\ (i = Len(T)) => s.pc = "queryDeposited"
          /\ IsQuery(T[i], RedeemedSignature)
               => (i > 1 /\ IsQuery(T[i - 1], DepositedSignature))
          \* processed logs belong to the window queried last, Deposited first
          /\ T[i].op = "log"
               => /\ SameContract(T[i], T[Opening(i)])
                  /\ T[Opening(i)].fromBlock <= T[i].fromBlock
                  /\ T[i].toBlock <= T[Opening(i)].toBlock
                  /\ (T[i].topic = DepositedSignature)
                       => \A r \in Opening(i)..i :
                             T[r].op = "log" => T[r].topic = DepositedSignature
          \* all logs of a window are processed before the next query
          /\ (IsQuery(T[i], DepositedSignature) /\ i > 1)
               => /\ T[i - 1].op = "query"
                       => LogsInWindow(T[i - 1]) = {}
                  /\ T[i - 1].op = "log"
                       => {T[r].hash : r \in Opening(i - 1)..(i - 1)} \ {""}
                            = {l.transactionHash : l \in LogsInWindow(T[Opening(i - 1)])}
     \* windows of one contract in increasing block order; contracts and
     \* networks one after another
     /\ \A b \in DOMAIN D : \A a \in 1..(b - 1) :
          /\ SameContract(D[a], D[b]) => D[a].toBlock < D[b].fromBlock
          /\ (b < Len(D) /\ ~SameContract(D[b], D[b + 1]))
               => ~SameContract(D[a], D[b + 1])

\* C27 (sequential, ordered querying inside one sweep): a reconciliation
\* sweep has at most one getPastLogs call in flight; each window is queried
\* by exactly two calls, Deposited then Redeemed, filtered by the contract
\* address and the event signature; the windows of a contract are queried in
\* increasing block order; every log of a window is processed, Deposited
\* results first, before the next window is queried; contracts and networks
\* are handled one after another.
C27_SequentialQueries ==
  \A j \in DOMAIN sweeps :
     sweeps[j].kind \in {"hourly", "manual"} => OrderedTrace(sweeps[j])

C27_Witness ==
  \E j \in DOMAIN sweeps :
     LET T == sweeps[j].trace
     IN /\ sweeps[j].kind = "hourly" /\ sweeps[j].pc = "done"
        /\ Len(T) >= 14
        /\ \E i \in DOMAIN T :
             /\ i + 3 <= Len(T)
             /\ IsQuery(T[i], DepositedSignature) /\ T[i].fromBlock = 1000
             /\ T[i].toBlock = 1999 /\ T[i].address = "0xAA"
             /\ IsQuery(T[i + 1], RedeemedSignature)
             /\ T[i + 2].op = "log" /\ T[i + 2].hash = "0xh1"
             /\ IsQuery(T[i + 3], DepositedSignature) /\ T[i + 3].fromBlock = 2000

\* The scheduler state: Armed when the one-shot or the recurring timer is set.
Armed == backfillInterval \/ oneShot > 0

\* C28 (scheduler arming): the scheduler goes from Idle to Armed in the one
\* step that ends the connect pass, when an attempt has been made for every
\* configured network, however many of them connected; that step sets both
\* timers; no timer is set again afterwards; and until then no timer is set
\* and no sweep exists.
C28_ArmedOnceAfterPass ==
  /\ [][/\ (backfillInterval' # backfillInterval \/ oneShot' > oneShot)
             => /\ boot.pc # "done" /\ boot'.pc = "done"
                /\ Len(boot'.attempts) = Len(config)
                /\ ~Armed /\ backfillInterval' /\ oneShot' = 1
        /\ (boot.pc # "done" /\ boot'.pc = "done")
             => (backfillInterval' /\ oneShot' = 1)
        /\ boot.pc = "done" => boot'.pc = "done"]_vars
  /\ [](boot.pc # "done" => (~Armed /\ sweeps = <<>>))

C28_Witness ==
  /\ boot.pc = "done" /\ web3Connections = {}
  /\ \A i \in DOMAIN boot.attempts : boot.attempts[i].result = "failed"
  /\ Len(boot.attempts) = 3
  /\ backfillInterval /\ oneShot = 0
  /\ Len(sweeps) = 1 /\ sweeps[1].kind = "hourly"

\* C29 (no automatic resubscription): once an eth_subscribe call for a network
\* has been rejected, no further subscribe call is issued for that network.
C29_NoResubscription ==
  [][\A n \in rejected : subscribing'[n] <= subscribing[n]]_vars

\* The entries of doneTasks a tally covers.
TasksOfTally(s, y) == {k \in y.firstTask..y.lastTask : k \in DOMAIN s.doneTasks}

\* The tallies of the contract scans of reconciliation sweeps.
Reconciliations == {j \in DOMAIN sweeps : sweeps[j].kind # "previous"}

\* C30 as stated: whenever the scan of a contract ends, processed count +
\* skipped count equals the number of logs its queries returned.
C30_CountsMatchReturnedLogs ==
  \A j \in Reconciliations :
    \A i \in DOMAIN sweeps[j].tallies :
       LET y == sweeps[j].tallies[i]
       IN y.totalProcessed + y.totalSkipped = y.returned

\* C30 (duplicates are skips): when the existence check of a reconciliation
\* sweep is answered for a log whose transaction hash is stored, the log is
\* finished in that step with no create, the store and the sweep's errors
\* are unchanged and the next returned log of the window is taken up; in
\* every finished scan of a contract the skipped count is the number of logs
\* finished at the existence check, the processed count is the number of the
\* others, and processed + skipped equals the number of logs returned less
\* the Deposited logs dropped when the Redeemed query of their window failed.
C30_DuplicatesAreSkips ==
  /\ [][\A j \in Reconciliations :
          (/\ sweeps[j].task.pc = "precheck"
           /\ sweeps'[j] # sweeps[j]
           /\ findByTxHash(store, sweeps[j].task.log.transactionHash) # {})
          => LET n == Len(sweeps[j].doneTasks) + 1
                 t == sweeps'[j].doneTasks[n]
             IN /\ Len(sweeps'[j].doneTasks) = n
                /\ t.log = sweeps[j].task.log
                /\ t.outcome = "precheck_duplicate"
                /\ t.creates = 0
                /\ store' = store
                /\ sweeps'[j].errors = sweeps[j].errors
                /\ sweeps[j].pending # <<>>
                     => /\ sweeps'[j].task.pc = "precheck"
                        /\ sweeps'[j].task.log = Head(sweeps[j].pending).log
                        /\ sweeps'[j].pending = Tail(sweeps[j].pending)]_vars
  /\ [](\A j \in Reconciliations :
          \A i \in DOMAIN sweeps[j].tallies :
             LET s == sweeps[j]
                 y == s.tallies[i]
                 skips == {k \in TasksOfTally(s, y) :
                             s.doneTasks[k].outcome = "precheck_duplicate"}
             IN /\ y.totalSkipped = Cardinality(skips)
                /\ y.totalProcessed = Cardinality(TasksOfTally(s, y) \ skips)
                /\ y.totalProcessed + y.totalSkipped = y.returned - y.dropped
                /\ (~y.failed) => y.dropped = 0)

\* A sweep has finished the scan of a contract in which it skipped a stored
\* log and then went on to process another one.
C30_Witness ==
  \E j \in Reconciliations :
    \E i \in DOMAIN sweeps[j].tallies :
       LET s == sweeps[j]
           y == s.tallies[i]
       IN /\ ~y.failed
          /\ y.totalSkipped > 0 /\ y.totalProcessed > 0
          /\ \E k, l \in TasksOfTally(s, y) :
                /\ k < l
                /\ s.doneTasks[k].outcome = "precheck_duplicate"
                /\ s.doneTasks[l].outcome = "stored"

\* Runs that got as far as the store: their log was tracked and decoded.
ReachedStore(t) == ReturnedNormally(t) \/ StoreCallFailed(t)

\* C31 (one record per transaction): when runs do not overlap, a step that
\* changes the store appends one row whose transaction hash no stored row
\* carried; a run that finishes on a log of a transaction of which another
\* log has been stored is skipped as a duplicate without a create call,
\* whatever the event kind, contract, network or path of either run; and a
\* run that reaches the store when no row carries its hash, and whose store
\* calls succeed, is the one that is stored.
C31_OneRecordPerTransaction ==
  /\ [][store' # store
          => /\ Len(store') = Len(store) + 1
             /\ SubSeq(store', 1, Len(store)) = store
             /\ RowsWith(store, store'[Len(store')].transaction_hash) = {}]_vars
  /\ [][\A t2 \in DoneTasks' \ DoneTasks :
          /\ (\E t1 \in DoneTasks :
                 /\ t1.log # t2.log
                 /\ t1.log.transactionHash = t2.log.transactionHash
                 /\ t1.outcome = "stored") /\ ReachedStore(t2)
               => (Skipped(t2) /\ t2.creates = 0 /\ store' = store)
          /\ (ReachedStore(t2) /\ ~StoreCallFailed(t2)
                 /\ RowsWith(store, t2.log.transactionHash) = {})
               => t2.outcome = "stored"]_vars

\* A Deposited log of one contract is stored; the Deposited log another
\* contract emitted in the same transaction and the Redeemed log of that
\* transaction on another network are skipped, on the live path and by sweeps.
C31_Witness ==
  \E t0, t1, t2 \in DoneTasks :
     /\ t0.log = LogDepA /\ t0.outcome = "stored"
     /\ t1.log = LogDepB /\ Skipped(t1) /\ t1.creates = 0
     /\ t2.log = LogRedD /\ Skipped(t2) /\ t2.creates = 0
     /\ {t0.path, t1.path, t2.path} \in {{"live", "dedup"}, {"live", "previous"}, {"dedup"}}
     /\ Cardinality(RowsWith(store, "0xh1")) = 1

C33_EmptyAfterDisconnect ==
  shutdown.pc = "done"
    => /\ subscriptions = {}
       /\ web3Connections = {}
       /\ \A n \in NetworkNames : openSubs[n] = 0

\* The start block a store-previous-events request asks for: the query
\* parameter when present, else the body's value.
AskedFromBlock(r) == IF r.input # <<>> THEN r.number ELSE r.body

\* C34 (storePreviousEvents start block): for every contract of a connected
\* network whose scan by a storePreviousEvents request has ended, with cur the
\* block number read: the windows start at the asked block when one is asked
\* and non-zero, and at max(0, cur - 80000) when none is asked or it is 0;
\* they are consecutive and end at cur; and when the start exceeds cur there
\* is no window.  The asked block is the query parameter's when the query
\* has one, whatever the body says.
C34_PreviousStartBlock ==
  \A i \in DOMAIN requests : \A x \in Scans :
     LET r == requests[i]
         cur == ReadOf(x).value
         asked == AskedFromBlock(r)
         start == IF ~asked.nan /\ asked.val # 0 THEN asked.val
                  ELSE IF cur - 80000 > 0 THEN cur - 80000 ELSE 0
         W == WindowsOf(x)
     IN (/\ r.endpoint = "store-previous-events" /\ r.status = "accepted"
         /\ x.sweep = r.sweep /\ Complete(x))
          => /\ start > cur => W = <<>>
             /\ start <= cur
                  => /\ W # <<>>
                     /\ W[1].from = start
                     /\ W[Len(W)].to = cur
                     /\ \A k \in 1..(Len(W) - 1) : W[k + 1].from = W[k].to + 1

\* On the long chain the scan of a request whose query asks for block 80000
\* and whose body asks for block 700 has ended with the one window
\* [80000, 80500].
C34_Witness ==
  \E x \in Scans : \E i \in DOMAIN requests :
     LET r == requests[i]
         W == WindowsOf(x)
     IN /\ r.endpoint = "store-previous-events" /\ r.status = "accepted"
        /\ x.sweep = r.sweep /\ Complete(x)
        /\ r.input = <<"8", "0", "0", "0", "0">> /\ r.body = Num(700)
        /\ ReadOf(x).value = 80500
        /\ Len(W) = 1 /\ W[1].from = 80000 /\ W[1].to = 80500

\* The getPastLogs calls issued for the windows of a scan.
RECURSIVE QueriesIn(_)
QueriesIn(W) == IF W = <<>> THEN 0 ELSE W[1].queries + QueriesIn(Tail(W))

\* C35 (termination and query count): every backfill started returns; and
\* when the scan of a contract over [from, to] has ended with no failing
\* query, it has visited ceil((to - from + 1) / 1000) windows and issued
\* twice as many getPastLogs calls, no window when from > to, and the one
\* window [b, b] when from = to = b.
C35_TerminatesWithExactQueryCount ==
  /\ [](\A x \in Scans :
          LET from == ReadOf(x).from.val
              to == ReadOf(x).value
              W == WindowsOf(x)
          IN (Complete(x) /\ ~ReadOf(x).from.nan /\ \A k \in DOMAIN W : ~W[k].failed)
               => /\ from > to => W = <<>>
                  /\ from <= to => Len(W) = ((to - from + 1) + 999) \div 1000
                  /\ QueriesIn(W) = 2 * Len(W)
                  /\ from = to => (Len(W) = 1 /\ W[1].from = from /\ W[1].to = from))
  /\ \A j \in 1..(MaxSweeps + 1) :
       (Len(sweeps) >= j) ~> (Len(sweeps) >= j /\ sweeps[j].pc = "done")

\* A storePreviousEvents backfill over [500, 500] has returned after one
\* window and two queries per contract.
C35_Witness ==
  \E x \in Scans :
     /\ sweeps[x.sweep].pc = "done" /\ sweeps[x.sweep].kind = "previous"
     /\ ReadOf(x).from = Num(500) /\ ReadOf(x).value = 500
     /\ Len(WindowsOf(x)) = 1 /\ QueriesIn(WindowsOf(x)) = 2

\* C36 (the store only grows): every step leaves each stored row in place
\* and unmodified, so the rows of a state include the rows of every earlier
\* state; a step that changes the store is a create of the pipeline, which
\* appends one row.
C36_StoreOnlyGrows ==
  [][/\ Len(store') >= Len(store)
     /\ \A k \in DOMAIN store : store'[k] = store[k]
     /\ store' # store
          => /\ Len(store') = Len(store) + 1
             /\ \E h \in Holders :
                   /\ TaskOf(h).pc = "create"
                   /\ store'[Len(store')] = dbEvent(TaskOf(h))]_vars

\* The rows written by a sweep are still there when the sweep has returned
\* and the shutdown has completed.
C36_Witness ==
  /\ Len(store) = 2
  /\ shutdown.pc = "done"
  /\ \E j \in DOMAIN sweeps :
        /\ sweeps[j].pc = "done"
        /\ \E k \in DOMAIN sweeps[j].doneTasks : sweeps[j].doneTasks[k].rec = 1

\* The networks of a sweep's configuration list that hold no connection.
Unconnected(s) ==
  {s.configs[i].name : i \in DOMAIN s.configs} \ web3Connections

\* C37 (backfill of an unconnected network): for a network without an entry
\* in the connection map a sweep of either variant reads no block number,
\* queries no window, starts no pipeline run and records no error; it still
\* goes through the networks after it, so that a finished sweep has read the
\* block number of each connected network of its list; and the
\* store-previous-events endpoint answers success for such a network.
C37_UnconnectedNetworkIsSkipped ==
  /\ \A j \in DOMAIN sweeps :
       LET s == sweeps[j]
       IN /\ \A n \in Unconnected(s) :
               /\ \A k \in DOMAIN s.blockReads : s.blockReads[k].net # n
               /\ \A k \in DOMAIN s.windows : s.windows[k].net # n
               /\ \A k \in DOMAIN s.trace : s.trace[k].net # n
               /\ \A k \in DOMAIN s.doneTasks : s.doneTasks[k].chainName # n
               /\ s.task.pc # "none" => s.task.chainName # n
          /\ s.errors = <<>>
          /\ s.pc = "done"
               => \A i \in DOMAIN s.configs :
                     s.configs[i].name \in web3Connections
                       => \E k \in DOMAIN s.blockReads : s.blockReads[k].net = s.configs[i].name
  /\ \A i \in DOMAIN requests :
       LET r == requests[i]
       IN (/\ r.endpoint = "store-previous-events" /\ r.status = "accepted"
           /\ Unconnected(sweeps[r.sweep]) # {})
            => /\ sweeps[r.sweep].pc = "done"
               /\ storePreviousEventsResponse(r) = "success"

\* net1 has no connection and net3 has one: a store-previous-events request
\* for net1 was answered with success, and a manual sweep went past net1 and
\* read the block number of net3.
C37_Witness ==
  /\ web3Connections = {"net3"}
  /\ \E i \in DOMAIN requests :
        /\ requests[i].endpoint = "store-previous-events" /\ requests[i].chainId = 56
        /\ storePreviousEventsResponse(requests[i]) = "success"
        /\ sweeps[requests[i].sweep].blockReads = <<>>
  /\ \E j \in DOMAIN sweeps :
        /\ sweeps[j].kind = "manual" /\ sweeps[j].pc = "done"
        /\ Len(sweeps[j].blockReads) = 1 /\ sweeps[j].blockReads[1].net = "net3"

\* C38 (isConnected reports the connect pass): isConnected() is false until
\* connectToMultipleChains returns and true from the step in which it
\* returns, whatever the connection map holds then; a transport signal
\* leaves it unchanged; and it changes back to false only in the step in
\* which disconnect returns, where it does become false.
C38_IsConnectedFollowsThePass ==
  /\ [](boot.pc # "done" => ~isConnected)
  /\ [][/\ (boot.pc # "done" /\ boot'.pc = "done") => isConnected'
        /\ (~isConnected /\ isConnected') => (boot.pc # "done" /\ boot'.pc = "done")
        /\ nSignals' # nSignals => isConnected' = isConnected
        /\ (isConnected /\ ~isConnected') => (shutdown.pc # "done" /\ shutdown'.pc = "done")
        /\ (shutdown.pc # "done" /\ shutdown'.pc = "done") => ~isConnected']_vars

\* The pass has returned with no network connected and isConnected() is true.
C38_Witness ==
  /\ boot.pc = "done"
  /\ web3Connections = {}
  /\ shutdown.pc = "idle"
  /\ isConnected


\* C39: after any sequence of arm and stop calls at most one recurring timer
\* is pending, and it is the one whose handle is stored.  An arming leaves
\* exactly one recurring timer and one more one-shot timer; a stop of a
\* running scheduler leaves no recurring timer and keeps the one-shot timers;
\* a stop of an idle scheduler changes no timer.  The pending one-shot timers
\* are those of the armings whose delay has not yet expired.
C39_AtMostOneRecurringTimer ==
  /\ [](/\ timers.recurring <= 1
        /\ backfillInterval <=> timers.recurring = 1
        /\ oneShot = timers.armings - timers.expired)
  /\ [][/\ timers'.armings # timers.armings
             => /\ timers'.armings = timers.armings + 1
                /\ timers'.recurring = 1 /\ backfillInterval'
                /\ oneShot' = oneShot + 1
        /\ (backfillInterval /\ ~backfillInterval')
             => timers'.recurring = 0 /\ oneShot' = oneShot
        /\ timers'.idleStops # timers.idleStops
             => /\ ~backfillInterval /\ ~backfillInterval'
                /\ timers'.recurring = timers.recurring
                /\ oneShot' = oneShot]_vars

\* The scheduler was armed again after a stop and a stop while idle, and one
\* of the two one-shot timers has expired.
C39_Witness ==
  /\ timers.armings = 2 /\ timers.idleStops >= 1 /\ timers.expired = 1
  /\ timers.recurring = 1 /\ backfillInterval /\ oneShot = 1


\* The logs a scan of [from, to] is handed, in order: per connected network
\* and contract, window after window, the Deposited logs before the Redeemed.
RECURSIVE WindowLogs(_, _, _, _)
WindowLogs(net, contract, from, to) ==
  IF from > to THEN <<>>
  ELSE LET last == IF from + batchSize - 1 < to THEN from + batchSize - 1 ELSE to
           dep == getPastLogs(net, contract.address, from, last, DepositedSignature)
           red == getPastLogs(net, contract.address, from, last, RedeemedSignature)
           entry(l, e) == [net |-> net, contract |-> contract, log |-> l, eventType |-> e]
       IN [i \in DOMAIN dep |-> entry(dep[i], "Deposited")]
          \o [i \in DOMAIN red |-> entry(red[i], "Redeemed")]
          \o WindowLogs(net, contract, from + batchSize, to)

RECURSIVE ContractLogs(_, _, _, _, _)
ContractLogs(net, contracts, k, from, to) ==
  IF k > Len(contracts) THEN <<>>
  ELSE WindowLogs(net, contracts[k], from, to)
       \o ContractLogs(net, contracts, k + 1, from, to)

RECURSIVE ScanLogs(_, _, _, _)
ScanLogs(configs, i, from, to) ==
  IF i > Len(configs) THEN <<>>
  ELSE (IF configs[i].name \in web3Connections
        THEN ContractLogs(configs[i].name, configs[i].contracts, 1, from, to)
        ELSE <<>>)
       \o ScanLogs(configs, i + 1, from, to)

\* The rows left when each log in turn is decoded, stamped with its block's
\* time and stored unless a row with its transaction hash exists.
RECURSIVE StoredInOrder(_, _)
StoredInOrder(rows, entries) ==
  IF entries = <<>> THEN rows
  ELSE LET e == Head(entries)
           t0 == NewTask("", e.net, e.contract, e.log, e.eventType)
           t1 == IF e.eventType = "Deposited" THEN processDepositedEvent(t0)
                 ELSE processRedeemedEvent(t0)
           row == dbEvent(getBlockDateFromTimestamp(t1, TRUE))
           fresh == t1.pc = "getBlock" /\ findByTxHash(rows, e.log.transactionHash) = {}
       IN StoredInOrder(IF fresh THEN create(rows, row) ELSE rows, Tail(entries))

\* The rows in the store when the backfill started: those of the live
\* deliveries before it.
StoreBefore ==
  SubSeq(store, 1, Cardinality({i \in DOMAIN live : live[i].rec # 0}))

\* C40: whichever variant runs, fetchAndStoreContractEvents or
\* fetchAndStoreContractEventsWithDeduplication, a backfill over a block range
\* that runs alone ends with the same store: the rows it started on followed
\* by one row for each returned log whose transaction hash had no row yet, in
\* scan order.  The variants differ only in their findByTxHash calls: one per
\* log on the storePreviousEvents path; on the reconciliation path one for a
\* log whose hash is stored and two for a log that is written.
C40_VariantsLeaveTheSameStore ==
  \A j \in DOMAIN sweeps :
    sweeps[j].pc = "done" =>
      LET s == sweeps[j]
          scanned == ScanLogs(s.configs, 1, s.fromBlock.val, s.currentBlock)
      IN /\ Len(s.doneTasks) = Len(scanned)
         /\ \A k \in DOMAIN s.doneTasks :
              /\ s.doneTasks[k].log = scanned[k].log
              /\ s.doneTasks[k].finds =
                   IF s.kind = "previous" \/ s.doneTasks[k].outcome = "precheck_duplicate"
                   THEN 1 ELSE 2
         /\ store = StoredInOrder(StoreBefore, scanned)

\* A backfill that started on one row has skipped the log of that row's
\* transaction and written a row for the other one.
C40_Witness ==
  /\ Len(StoreBefore) = 1 /\ Len(store) = 2
  /\ \E j \in DOMAIN sweeps :
       /\ sweeps[j].pc = "done"
       /\ \E k \in DOMAIN sweeps[j].doneTasks :
            sweeps[j].doneTasks[k].outcome \in {"duplicate", "precheck_duplicate"}
       /\ \E k \in DOMAIN sweeps[j].doneTasks : sweeps[j].doneTasks[k].rec = 2

====
